---- MODULE Spec2Model ----
(***************************************************************************)
(* A model of the astro_bot digest pipeline (src/astro_bot/astrology.py):  *)
(* chart resolution, AstrologyEngine.compute_aspects,                      *)
(* AstrologyEngine.render_daily_message and load_quotes.                   *)
(*                                                                         *)
(* Longitudes are Python floats (IEEE-754 binary64, round to nearest, ties *)
(* to even).  A float is modelled as an integer number of grid units,      *)
(* 2^FracBits units to the degree, and every arithmetic operation of the   *)
(* code rounds its exact result to MantBits significant bits, as the       *)
(* hardware does.  binary64 is the instance FracBits = 45, MantBits = 53:  *)
(* the spacing of floats is 2^-45 in [128, 256) and 2^-44 in [256, 512).   *)
(* The model keeps that shape (MantBits - FracBits = 8) at a small         *)
(* FracBits, and restricts inputs to multiples of the unit.                *)
(***************************************************************************)
EXTENDS Integers, Sequences, FiniteSets, TLC

VARIABLES natal, transit, aspects, user_name, quotes, message, quote_files,
          lon_t, lon_n, dist, raw, calls, pc,
          config, user, user_data, conv, reply, job, digest, clock, sent,
          users, referrals, convs, awaits, jobs, outbox, ret

\* The bot's state for several users: the users table, the referrals table,
\* each user's conversation state, the users whose user_data has await_time
\* set, the job queue, the messages a broadcast tried to deliver, and the
\* value the last referral call returned.
crowd_vars == <<users, referrals, convs, awaits, jobs, outbox, ret>>

\* The bot's state (src/astro_bot/bot.py): the configuration, the user's row
\* of the users table, context.user_data, the conversation state, the last
\* reply, the user's entry of the job queue, the charts of the last digest,
\* the clock and the messages table.
bot_vars == <<config, user, user_data, conv, reply, job, digest, clock, sent,
              crowd_vars>>

vars == <<natal, transit, aspects, user_name, quotes, message, quote_files,
          lon_t, lon_n, dist, raw, calls, pc, bot_vars>>

(***************************************************************************)
(* Bounds of the model.                                                    *)
(***************************************************************************)
\* Fractional bits of the grid: one unit is 2^-FracBits degrees.
FracBits == 1

(***************************************************************************)
(* Float arithmetic.                                                       *)
(***************************************************************************)
RECURSIVE Pow2(_)
Pow2(k) == IF k = 0 THEN 1 ELSE 2 * Pow2(k - 1)

\* Grid units per degree.
Unit == Pow2(FracBits)

\* Significant bits of the float format (53 for binary64, where FracBits = 45).
MantBits == FracBits + 8

Deg(d) == d * Unit

Abs(x) == IF x < 0 THEN -x ELSE x

Sgn(x) == IF x < 0 THEN -1 ELSE 1

\* The least magnitude, in units, that no longer has every unit as a float.
MantLimit == Pow2(MantBits)

\* Spacing of the floats around magnitude m >= 0, in units.
RECURSIVE Ulp(_)
Ulp(m) == IF m < MantLimit THEN 1 ELSE 2 * Ulp(m \div 2)

\* The float nearest to the exact value x, ties to the even mantissa.
RoundFloat(x) ==
  LET m == Abs(x)
      u == Ulp(m)
      q == m \div u
      r == m % u
      qq == IF 2 * r < u THEN q
            ELSE IF 2 * r > u THEN q + 1
            ELSE IF q % 2 = 0 THEN q ELSE q + 1
  IN Sgn(x) * qq * u

IsFloat(x) == RoundFloat(x) = x

FloatAdd(x, y) == RoundFloat(x + y)

FloatSub(x, y) == RoundFloat(x - y)

\* C fmod: exact, with the sign of x.
Fmod(x, y) == Sgn(x) * (Abs(x) % y)

\* Python's float x % y for y > 0 (float_rem): fmod, then y is added to a
\* negative remainder, and that addition rounds.
FloatMod(x, y) ==
  LET mod == Fmod(x, y)
  IN IF mod # 0 /\ mod < 0 THEN FloatAdd(mod, y) ELSE mod

\* The longitudes a chart can hold: the floats of [0, 360).
Longitudes == {x \in 0..(Deg(360) - 1) : IsFloat(x)}

(***************************************************************************)
(* Charts.                                                                 *)
(***************************************************************************)
\* The bodies of planets_longitudes, in the dict's insertion order.
planets == <<"Sun", "Moon", "Mercury", "Venus", "Mars", "Jupiter", "Saturn">>

Bodies == {planets[i] : i \in 1..Len(planets)}

NoChart == [b \in {} |-> 0]

\* The charts the ephemeris returns in the model: the transit Sun takes every
\* longitude, the natal Sun the longitudes of NatalSunLons, the other bodies
\* stand at fixed whole degrees.
BaseNatal ==
  [b \in Bodies |->
     CASE b = "Sun" -> Deg(10) [] b = "Moon" -> Deg(100) [] b = "Mercury" -> Deg(45)
       [] b = "Venus" -> Deg(160) [] b = "Mars" -> Deg(215)
       [] b = "Jupiter" -> Deg(300) [] OTHER -> Deg(352)]

BaseTransit ==
  [b \in Bodies |->
     CASE b = "Sun" -> Deg(190) [] b = "Moon" -> Deg(100) [] b = "Mercury" -> Deg(166)
       [] b = "Venus" -> Deg(40) [] b = "Mars" -> Deg(276)
       [] b = "Jupiter" -> Deg(7) [] OTHER -> Deg(330)]

NatalSunLons ==
  Longitudes \cap {Deg(d) : d \in {0, 10, 45, 90, 104, 135, 180, 226, 270, 316, 358}}

NatalCharts == {[BaseNatal EXCEPT !["Sun"] = x] : x \in NatalSunLons}

TransitCharts == {[BaseTransit EXCEPT !["Sun"] = x] : x \in Longitudes}

(***************************************************************************)
(* compute_aspects.                                                        *)
(***************************************************************************)
major_aspects ==
  << [name |-> "Conjunction", angle |-> 0],
     [name |-> "Sextile", angle |-> 60],
     [name |-> "Square", angle |-> 90],
     [name |-> "Trine", angle |-> 120],
     [name |-> "Opposition", angle |-> 180] >>

orb == 6

\* The abs() forgotten: a signed distance.
delta_signed(t_lon, n_lon) ==
  FloatSub(FloatMod(FloatAdd(FloatSub(t_lon, n_lon), Deg(180)), Deg(360)),
           Deg(180))

\* The "+ 180 ... - 180" recentring forgotten: abs((t_lon - n_lon) % 360).
delta_unfolded(t_lon, n_lon) ==
  Abs(FloatMod(FloatSub(t_lon, n_lon), Deg(360)))

\* delta = abs((t_lon - n_lon + 180) % 360 - 180)
delta(t_lon, n_lon) ==
  Abs(FloatSub(FloatMod(FloatAdd(FloatSub(t_lon, n_lon), Deg(180)), Deg(360)),
               Deg(180)))

\* The orb taken as exclusive: <  for <=.
InOrbStrict(d, a_lon) == Abs(FloatSub(d, Deg(a_lon))) < Deg(orb)

\* The inner abs() forgotten: delta - a_lon <= orb.
InOrbSigned(d, a_lon) == FloatSub(d, Deg(a_lon)) <= Deg(orb)

\* if abs(delta - a_lon) <= orb
InOrb(d, a_lon) == Abs(FloatSub(d, Deg(a_lon))) <= Deg(orb)

\* A slip in the indentation: the append runs for every kind tested, up to
\* and including the first one in orb.
RECURSIVE AppendDedented(_, _)
AppendDedented(d, i) ==
  IF i > Len(major_aspects) THEN <<>>
  ELSE IF InOrb(d, major_aspects[i].angle) THEN <<major_aspects[i].name>>
  ELSE <<major_aspects[i].name>> \o AppendDedented(d, i + 1)

\* The inner loop over major_aspects from position i: the kinds appended for
\* one pair, which is the first kind in orb and then the break.
RECURSIVE MatchFrom(_, _)
MatchFrom(d, i) ==
  IF i > Len(major_aspects) THEN <<>>
  ELSE IF InOrb(d, major_aspects[i].angle) THEN <<major_aspects[i].name>>
  ELSE MatchFrom(d, i + 1)

MatchedKindsDedented(d) == AppendDedented(d, 1)

MatchedKinds(d) == MatchFrom(d, 1)

\* The events one (transit body, natal body) pair appends.
PairEvents(n_chart, t_chart, t_name, n_name) ==
  LET ks == MatchedKinds(delta(t_chart[t_name], n_chart[n_name]))
  IN [i \in 1..Len(ks) |-> <<t_name, n_name, ks[i]>>]

\* The loops the other way round: natal bodies outside, transit bodies inside.
RECURSIVE AspectsFromNatalOuter(_, _, _)
AspectsFromNatalOuter(n_chart, t_chart, k) ==
  IF k >= Len(planets) * Len(planets) THEN <<>>
  ELSE PairEvents(n_chart, t_chart, planets[(k % Len(planets)) + 1],
                  planets[(k \div Len(planets)) + 1])
       \o AspectsFromNatalOuter(n_chart, t_chart, k + 1)

\* The two nested loops, flattened: step k is transit body k \div 7, natal
\* body k % 7, both in the order of planets.
RECURSIVE AspectsFrom(_, _, _)
AspectsFrom(n_chart, t_chart, k) ==
  IF k >= Len(planets) * Len(planets) THEN <<>>
  ELSE PairEvents(n_chart, t_chart, planets[(k \div Len(planets)) + 1],
                  planets[(k % Len(planets)) + 1])
       \o AspectsFrom(n_chart, t_chart, k + 1)

compute_aspects(n_chart, t_chart) == AspectsFrom(n_chart, t_chart, 0)

(***************************************************************************)
(* The digest pipeline of confirm_first / send_daily_message.              *)
(***************************************************************************)
DeltaIdle == lon_t = 0 /\ lon_n = 0 /\ dist = 0

RenderIdle == user_name = "" /\ quotes = <<>> /\ message = <<>>

QuotesIdle == quote_files = <<>>

CrowdIdle ==
  /\ users = <<>> /\ referrals = <<>> /\ convs = <<>> /\ awaits = {}
  /\ jobs = <<>> /\ outbox = <<>> /\ ret = <<>>

BotIdle ==
  /\ CrowdIdle
  /\ raw = <<>> /\ calls = <<>>
  /\ config = <<>>
  /\ user = <<>> /\ user_data = <<>> /\ conv = "" /\ reply = ""
  /\ job = <<>> /\ digest = <<>> /\ clock = 0 /\ sent = <<>>

InitAspects ==
  /\ natal = NoChart
  /\ transit = NoChart
  /\ aspects = <<>>
  /\ pc = "start"
  /\ RenderIdle
  /\ QuotesIdle
  /\ DeltaIdle
  /\ BotIdle

\* natal = engine.natal_chart(...)
NatalChart ==
  /\ pc = "start"
  /\ natal' \in NatalCharts
  /\ pc' = "natal"
  /\ UNCHANGED <<transit, aspects, user_name, quotes, message, quote_files,
                 lon_t, lon_n, dist,
                 raw, calls, bot_vars>>

\* transit = engine.transit_chart(...)
TransitChart ==
  /\ pc = "natal"
  /\ transit' \in TransitCharts
  /\ pc' = "transit"
  /\ UNCHANGED <<natal, aspects, user_name, quotes, message, quote_files,
                 lon_t, lon_n, dist,
                 raw, calls, bot_vars>>

\* aspects = engine.compute_aspects(natal, transit)
ComputeAspects ==
  /\ pc = "transit"
  /\ aspects' = compute_aspects(natal, transit)
  /\ pc' = "aspects"
  /\ UNCHANGED <<natal, transit, user_name, quotes, message, quote_files,
                 lon_t, lon_n, dist,
                 raw, calls, bot_vars>>

NextAspects == NatalChart \/ TransitChart \/ ComputeAspects

SpecAspects == InitAspects /\ [][NextAspects]_vars

(***************************************************************************)
(* The circular distance of compute_aspects, applied to one pair of        *)
(* longitudes.                                                             *)
(***************************************************************************)
AstroIdle == natal = NoChart /\ transit = NoChart /\ aspects = <<>>

InitDelta ==
  /\ lon_t \in Longitudes
  /\ lon_n \in Longitudes
  /\ dist = 0
  /\ pc = "pair"
  /\ AstroIdle
  /\ RenderIdle
  /\ QuotesIdle
  /\ BotIdle

\* delta = abs((t_lon - n_lon + 180) % 360 - 180)
Delta ==
  /\ pc = "pair"
  /\ dist' = delta(lon_t, lon_n)
  /\ pc' = "delta"
  /\ UNCHANGED <<natal, transit, aspects, user_name, quotes, message,
                 quote_files, lon_t, lon_n,
                 raw, calls, bot_vars>>

NextDelta == Delta

SpecDelta == InitDelta /\ [][NextDelta]_vars

(***************************************************************************)
(* Properties of compute_aspects.                                          *)
(***************************************************************************)
\* The aspect kinds in their priority order, and their reference angles.
KindOrder == <<"Conjunction", "Sextile", "Square", "Trine", "Opposition">>

KindAngle(k) ==
  CASE k = "Conjunction" -> 0 [] k = "Sextile" -> 60 [] k = "Square" -> 90
    [] k = "Trine" -> 120 [] k = "Opposition" -> 180

KindRank(k) == CHOOSE i \in 1..Len(KindOrder) : KindOrder[i] = k

Kinds == {KindOrder[i] : i \in 1..Len(KindOrder)}

\* |d - angle(k)| <= 6 degrees, in exact arithmetic.
WithinOrb(d, k) == Abs(d - Deg(KindAngle(k))) <= Deg(6)

\* The circular distance the code computes for a pair of bodies.
PairDelta(t_name, n_name) == delta(transit[t_name], natal[n_name])

EventsOf(t_name, n_name) ==
  {i \in 1..Len(aspects) : aspects[i][1] = t_name /\ aspects[i][2] = n_name}

HasEvent(t_name, n_name, k) ==
  \E i \in 1..Len(aspects) : aspects[i] = <<t_name, n_name, k>>

\* C1: compute_aspects emits at most one event per (transit body, natal
\* body) pair, so at most 7 x 7 = 49 events, and the kind recorded for a
\* pair is the first one, in the order Conjunction, Sextile, Square, Trine,
\* Opposition, whose angle is within the orb of the pair's delta.
C1_OneEventPerPair ==
  pc = "aspects" =>
    /\ Len(aspects) <= 49
    /\ \A t \in Bodies, n \in Bodies : Cardinality(EventsOf(t, n)) <= 1
    /\ \A i \in 1..Len(aspects) :
         LET d == PairDelta(aspects[i][1], aspects[i][2])
             k == aspects[i][3]
         IN /\ k \in Kinds
            /\ WithinOrb(d, k)
            /\ \A k2 \in Kinds : KindRank(k2) < KindRank(k) => ~WithinOrb(d, k2)

\* C1's case: a chart pair with several events, and a pair of bodies out of
\* every orb.
C1_Witness ==
  /\ pc = "aspects"
  /\ Len(aspects) >= 8
  /\ \E t \in Bodies, n \in Bodies : EventsOf(t, n) = {}

\* C2: the orb is inclusive: a pair whose delta is exactly 6, 60 +- 6,
\* 90 +- 6, 120 +- 6 or 180 - 6 degrees has the event of the corresponding
\* kind (Conjunction, Sextile, Square, Trine, Opposition).
C2_OrbInclusive ==
  pc = "aspects" =>
    \A t \in Bodies, n \in Bodies, k \in Kinds :
      (Abs(PairDelta(t, n) - Deg(KindAngle(k))) = Deg(6)) => HasEvent(t, n, k)

\* C2's case: the Sun/Sun pair stands exactly on the upper edge of the
\* Sextile orb, and another pair on the lower edge of an orb.
C2_Witness ==
  /\ pc = "aspects"
  /\ PairDelta("Sun", "Sun") = Deg(66)
  /\ HasEvent("Sun", "Sun", "Sextile")
  /\ \E t \in Bodies, n \in Bodies, k \in Kinds :
       PairDelta(t, n) = Deg(KindAngle(k)) - Deg(6)

\* C3: a pair whose longitudes differ by exactly 0 (mod 360) has a
\* Conjunction event, a pair whose longitudes differ by exactly 180 (mod 360)
\* an Opposition event; with natal Sun 10, Moon 100 and transit Sun 190,
\* Moon 100 the list holds (Sun, Sun, Opposition) and (Moon, Moon,
\* Conjunction).
C3_ConjunctionOpposition ==
  pc = "aspects" =>
    /\ \A t \in Bodies, n \in Bodies :
         /\ (transit[t] - natal[n]) % Deg(360) = 0 => HasEvent(t, n, "Conjunction")
         /\ (transit[t] - natal[n]) % Deg(360) = Deg(180)
              => HasEvent(t, n, "Opposition")
    /\ ( /\ natal["Sun"] = Deg(10) /\ natal["Moon"] = Deg(100)
         /\ transit["Sun"] = Deg(190) /\ transit["Moon"] = Deg(100) )
       => /\ HasEvent("Sun", "Sun", "Opposition")
          /\ HasEvent("Moon", "Moon", "Conjunction")

\* C3's case: the concrete scenario, after compute_aspects.
C3_Witness ==
  /\ pc = "aspects"
  /\ natal["Sun"] = Deg(10) /\ natal["Moon"] = Deg(100)
  /\ transit["Sun"] = Deg(190) /\ transit["Moon"] = Deg(100)
  /\ HasEvent("Sun", "Sun", "Opposition")

\* C6: compute_aspects is sound and complete for the orb: every event
\* (t, n, k) has |delta(t, n) - angle(k)| <= 6, and a pair whose delta is
\* farther than 6 degrees from each of 0, 60, 90, 120, 180 has no event.
C6_SoundComplete ==
  pc = "aspects" =>
    /\ \A i \in 1..Len(aspects) :
         /\ aspects[i][1] \in Bodies /\ aspects[i][2] \in Bodies
         /\ aspects[i][3] \in Kinds
         /\ WithinOrb(PairDelta(aspects[i][1], aspects[i][2]), aspects[i][3])
    /\ \A t \in Bodies, n \in Bodies :
         (\A k \in Kinds : ~WithinOrb(PairDelta(t, n), k)) => EventsOf(t, n) = {}

\* C6's case: the Sun/Sun pair lies just outside the Sextile orb and has no
\* event, while another pair has one.
C6_Witness ==
  /\ pc = "aspects"
  /\ PairDelta("Sun", "Sun") = Deg(66) + 1
  /\ EventsOf("Sun", "Sun") = {}
  /\ Len(aspects) >= 1

(***************************************************************************)
(* Properties of the circular distance.                                    *)
(***************************************************************************)
\* The shortest angular separation, in exact arithmetic.
ShortestSeparation(a, b) ==
  LET s == Abs(a - b)
  IN IF s <= Deg(360) - s THEN s ELSE Deg(360) - s

\* C4 as stated: delta(a, b) == delta(b, a) and delta(a, a) == 0 for all
\* longitudes of [0, 360).
C4_Symmetric ==
  pc = "delta" =>
    /\ dist = delta(lon_n, lon_t)
    /\ (lon_t = lon_n => dist = 0)

\* C4, amended: delta(a, a) == 0, and delta(a, b), delta(b, a) agree to
\* within 4 spacings of the floats at 360 (2^-42 degrees in binary64).
C4_SymmetricUpToRounding ==
  pc = "delta" =>
    /\ Abs(dist - delta(lon_n, lon_t)) <= 4 * Ulp(Deg(360))
    /\ (lon_t = lon_n => dist = 0)

\* C4's case: a pair of distinct longitudes whose two distances differ.
C4_Witness ==
  /\ pc = "delta"
  /\ lon_t # lon_n
  /\ dist # delta(lon_n, lon_t)

\* C5 as stated: delta lies in [0, 180] and equals
\* min(|t - n|, 360 - |t - n|).
C5_ShortestSeparation ==
  pc = "delta" =>
    /\ 0 <= dist /\ dist <= Deg(180)
    /\ dist = ShortestSeparation(lon_t, lon_n)

\* C5, amended: delta lies in [0, 180] and is within 2 spacings of the
\* floats at 360 (2^-43 degrees in binary64) of min(|t - n|, 360 - |t - n|).
C5_ShortestUpToRounding ==
  pc = "delta" =>
    /\ 0 <= dist /\ dist <= Deg(180)
    /\ Abs(dist - ShortestSeparation(lon_t, lon_n)) <= 2 * Ulp(Deg(360))

\* C5's case: the transit longitude is the smaller one, the separation goes
\* through 0/360, and the computed distance is off the exact one.
C5_Witness ==
  /\ pc = "delta"
  /\ lon_t < lon_n
  /\ lon_n - lon_t > Deg(180)
  /\ dist # ShortestSeparation(lon_t, lon_n)

(***************************************************************************)
(* render_daily_message.  The message is kept as its list of lines (the    *)
(* code joins them with "\n"), a line as the list of the pieces its        *)
(* f-string puts together.  The Russian texts are transliterated.          *)
(***************************************************************************)
DefaultQuote == <<"Osoznannost' sozdayot svobodu.">>

Blank == <<"">>

Bullet(parts) == <<"* ">> \o parts

Greeting(name) == <<"Dobroe utro, ", name, "!">>

ThemeLine == <<"Tema dnya: garmoniya i prinyatie. Prislushaysya k sebe.">>

MotifHeader == <<"Energii dnya:">>

ActionHeader == <<"Deystvuy:">>

AvoidHeader == <<"Kategoricheski:">>

RitualHeader == <<"Utrenniy ritual (5 minut):">>

RitualLine == <<"Posmotri na nebo i vspomni tri svoih mechty.">>

QuoteHeader == <<"Deviz dnya:">>

QuietLine == <<"Segodnya spokoynyy den'. Bud' myagok k sebe.">>

aspect_hint(planet, aspect) ==
  CASE planet = "Moon" /\ aspect = "Square" ->
         "Emotsii mogut prygat' v raznye storony - dyshi glubzhe."
    [] planet = "Mars" /\ aspect = "Trine" -> "Legche skazat' smeloe 'net'."
    [] planet = "Venus" /\ aspect = "Sextile" ->
         "Muza ryadom: beri kist', slova ili muzyku."
    [] planet = "Saturn" /\ aspect = "Opposition" ->
         "Ne peregruzhay sebya obyazannostyami - struktura, a ne strogost'."
    [] planet = "Jupiter" /\ aspect = "Trine" ->
         "Optimizm pomogaet uvidet' vozmozhnosti."
    [] OTHER -> "Zamet', gde telo podskazyvaet napravlenie."

\* the table indexed without a default: an unknown kind ends the call
aspect_verb_strict(aspect) ==
  CASE aspect = "Conjunction" -> "soedinyaetsya s"
    [] aspect = "Sextile" -> "delaet sekstil' k"
    [] aspect = "Square" -> "kvadrat k"
    [] aspect = "Trine" -> "trin k"
    [] aspect = "Opposition" -> "v oppozitsii k"
    [] OTHER -> "KeyError"

aspect_verb(aspect) ==
  CASE aspect = "Conjunction" -> "soedinyaetsya s"
    [] aspect = "Sextile" -> "delaet sekstil' k"
    [] aspect = "Square" -> "kvadrat k"
    [] aspect = "Trine" -> "trin k"
    [] aspect = "Opposition" -> "v oppozitsii k"
    [] OTHER -> "v aspekte k"

\* The action list chosen by the first event: reversed on a day that opens
\* with a square.
actions_from_aspects_keyed(evs) ==
  IF evs # <<>> /\ evs[1][3] = "Square"
  THEN << <<"Sdelay odno dobroe delo dlya sebya">>,
          <<"Zapishi tri shaga k mechte">>,
          <<"Provedi nemnogo vremeni naedine s soboy">>,
          <<"Obrati vnimanie na svoi istinnye zhelaniya">> >>
  ELSE << <<"Obrati vnimanie na svoi istinnye zhelaniya">>,
          <<"Provedi nemnogo vremeni naedine s soboy">>,
          <<"Zapishi tri shaga k mechte">>,
          <<"Sdelay odno dobroe delo dlya sebya">> >>

actions_from_aspects(evs) ==
  << <<"Obrati vnimanie na svoi istinnye zhelaniya">>,
     <<"Provedi nemnogo vremeni naedine s soboy">>,
     <<"Zapishi tri shaga k mechte">>,
     <<"Sdelay odno dobroe delo dlya sebya">> >>

\* list(dict.fromkeys(seq)): the first occurrence of each element, in order.
RECURSIVE FromKeys(_, _)
FromKeys(seq, seen) ==
  IF seq = <<>> THEN <<>>
  ELSE IF Head(seq) \in seen THEN FromKeys(Tail(seq), seen)
  ELSE <<Head(seq)>> \o FromKeys(Tail(seq), seen \cup {Head(seq)})

avoid_from_aspects(evs) ==
  FromKeys(<< <<"Ne ignoriruy trevogu">>,
              <<"Ne peregruzhay kalendar'">>,
              <<"Ne sravnivay sebya s drugimi">> >>, {})

\* seq[:n]
SliceTo(seq, n) == IF Len(seq) <= n THEN seq ELSE SubSeq(seq, 1, n)

\* The slice forgotten: every event is a motif candidate.
MotifCandidatesAll(evs) == evs

\* The slice taken after the duplicates are skipped: the events up to the
\* fifth new (t_planet, aspect) key.
MotifCandidatesRefilled(evs) ==
  LET keys(n) == {<<evs[i][1], evs[i][3]>> : i \in 1..n}
      short == {n \in 0..Len(evs) : Cardinality(keys(n)) <= 5}
  IN SubSeq(evs, 1, CHOOSE n \in short : \A m \in short : m <= n)

\* aspects[:5]
MotifCandidates(evs) == SliceTo(evs, 5)

\* The motif loop: one text per event whose (t_planet, aspect) key is new.
RECURSIVE MotifLoop(_, _)
MotifLoop(evs, used) ==
  IF evs = <<>> THEN <<>>
  ELSE LET t_planet == Head(evs)[1]
           n_planet == Head(evs)[2]
           aspect == Head(evs)[3]
           key == <<t_planet, aspect>>
       IN IF key \in used THEN MotifLoop(Tail(evs), used)
          ELSE << <<t_planet, " ", aspect_verb(aspect), " tvoemu ", n_planet, ". ",
                    aspect_hint(t_planet, aspect)>> >>
               \o MotifLoop(Tail(evs), used \cup {key})

Bullets(items) == [i \in 1..Len(items) |-> Bullet(items[i])]

\* The truth test falls through: "if aspects is not None".
HasAspectsNotNone(evs) == TRUE

\* if aspects:
HasAspects(evs) == evs # <<>>

\* The fallback taken for a pool of one quote too: "if len(quotes) > 1".
QuoteOrDefaultMany(qs, i) == IF Len(qs) > 1 THEN qs[i] ELSE DefaultQuote

\* quote = random.choice(quotes) if quotes else "..."; i is the index
\* random.choice draws.
QuoteOrDefault(qs, i) == IF qs # <<>> THEN qs[i] ELSE DefaultQuote

\* The indices random.choice can draw (one dummy when it is not called).
ChoiceIndices(qs) == IF qs = <<>> THEN {0} ELSE 1..Len(qs)

render_daily_message(name, evs, qs, i) ==
  IF HasAspects(evs)
  THEN LET motifs == MotifLoop(MotifCandidates(evs), {})
           actions == actions_from_aspects(evs)
           cant == SliceTo(FromKeys(avoid_from_aspects(evs), {}), 2)
       IN <<Greeting(name), Blank, ThemeLine>>
          \o (IF motifs # <<>> THEN <<MotifHeader>> \o Bullets(motifs) ELSE <<>>)
          \o <<Blank, ActionHeader>> \o Bullets(SliceTo(actions, 2))
          \o <<Blank, AvoidHeader>> \o Bullets(cant)
          \o <<Blank, RitualHeader, RitualLine, Blank, QuoteHeader,
               QuoteOrDefault(qs, i)>>
  ELSE <<Greeting(name), QuietLine, Blank, QuoteOrDefault(qs, i)>>

\* The events a digest is rendered from in the model: every sublist of
\* EventPool.  compute_aspects returns its events in the order of the transit
\* bodies, then of the natal bodies, one per pair at most, and so is EventPool.
EventPool ==
  << <<"Sun", "Sun", "Conjunction">>,
     <<"Moon", "Sun", "Square">>,
     <<"Moon", "Venus", "Square">>,
     <<"Moon", "Mars", "Trine">>,
     <<"Venus", "Moon", "Sextile">>,
     <<"Mars", "Mars", "Trine">>,
     <<"Mars", "Saturn", "Trine">>,
     <<"Jupiter", "Mercury", "Trine">>,
     <<"Saturn", "Sun", "Opposition">> >>

\* The elements of seq at the positions of keep, in order.
RECURSIVE SubList(_, _, _)
SubList(seq, keep, i) ==
  IF i > Len(seq) THEN <<>>
  ELSE (IF i \in keep THEN <<seq[i]>> ELSE <<>>) \o SubList(seq, keep, i + 1)

EventLists == {SubList(EventPool, keep, 1) : keep \in SUBSET (1..Len(EventPool))}

UserNames == {"", "Anna"}

QuotePools ==
  { <<>>,
    << <<"Blagodarnost' uskoryaet potok izobiliya.">> >>,
    << <<"My - magnit.">>, <<"Ya", " ", "pozvolyayu sebe mechtat'">> >> }

InitRender ==
  /\ aspects \in EventLists
  /\ user_name \in UserNames
  /\ quotes \in QuotePools
  /\ message = <<>>
  /\ pc = "events"
  /\ natal = NoChart /\ transit = NoChart
  /\ QuotesIdle
  /\ DeltaIdle
  /\ BotIdle

\* text = engine.render_daily_message(user.name, aspects, quotes)
RenderDailyMessage ==
  /\ pc = "events"
  /\ \E i \in ChoiceIndices(quotes) :
       message' = render_daily_message(user_name, aspects, quotes, i)
  /\ pc' = "rendered"
  /\ UNCHANGED <<natal, transit, aspects, user_name, quotes, quote_files,
                 lon_t, lon_n, dist,
                 raw, calls, bot_vars>>

NextRender == RenderDailyMessage

SpecRender == InitRender /\ [][NextRender]_vars

(***************************************************************************)
(* load_quotes.  A source file exists or not and holds a list of lines; a   *)
(* line is the list of its pieces, each a run of text or one whitespace    *)
(* character.                                                              *)
(***************************************************************************)
\* Lines a quote file holds at most.
MaxLines == 2

Missing == [exists |-> FALSE, lines |-> <<>>]

Whitespace == {" ", "\t", "\n"}

\* str.strip(): leading and trailing whitespace removed.
RECURSIVE LStrip(_)
LStrip(line) ==
  IF line # <<>> /\ Head(line) \in Whitespace THEN LStrip(Tail(line)) ELSE line

RECURSIVE RStrip(_)
RStrip(line) ==
  IF line # <<>> /\ line[Len(line)] \in Whitespace
  THEN RStrip(SubSeq(line, 1, Len(line) - 1)) ELSE line

Strip(line) == RStrip(LStrip(line))

\* The inner loop over the lines of one file: the stripped non-empty lines.
RECURSIVE FileQuotes(_)
FileQuotes(lines) ==
  IF lines = <<>> THEN <<>>
  ELSE (IF Strip(Head(lines)) # <<>> THEN <<Strip(Head(lines))>> ELSE <<>>)
       \o FileQuotes(Tail(lines))

BuiltinQuotes ==
  << <<"My - magnit. My prityagivaem to, chem yavlyaemsya.">>,
     <<"Blagodarnost' uskoryaet potok izobiliya.">>,
     <<"Ya pozvolyayu sebe mechtat' - i delayu odin shag segodnya.">> >>

\* The loop over ("secret.txt", "happy_pocket.txt"): files[k] is the k-th.
RECURSIVE ReadSources(_, _)
ReadSources(files, k) ==
  IF k > Len(files) THEN <<>>
  ELSE (IF files[k].exists THEN FileQuotes(files[k].lines) ELSE <<>>)
       \o ReadSources(files, k + 1)

\* The fallback forgotten: the pool is returned as read.
load_quotes_as_read(files) == ReadSources(files, 1)

\* A deduplication slipped in: list(dict.fromkeys(result)).
load_quotes_deduplicated(files) ==
  LET result == FromKeys(ReadSources(files, 1), {})
  IN IF result = <<>> THEN BuiltinQuotes ELSE result

load_quotes(files) ==
  LET result == ReadSources(files, 1)
  IN IF result = <<>> THEN BuiltinQuotes ELSE result

\* The raw lines of the model's files; all but "b" end with their newline.
RawLines ==
  { <<"\n">>, <<" ", "\t", "\n">>, <<"a", "\n">>, <<" ", "a", " ", "\n">>,
    <<"a", " ", "b", "\n">>, <<"b">> }

\* Only the last line of a file can lack its newline.
WellFormedFile(lines) ==
  \A i \in 1..(Len(lines) - 1) : lines[i][Len(lines[i])] = "\n"

FileContents ==
  UNION {[1..n -> RawLines] : n \in 0..MaxLines}

FileStates ==
  {[exists |-> TRUE, lines |-> f] : f \in {g \in FileContents : WellFormedFile(g)}}
  \cup {Missing}

InitQuotes ==
  /\ quote_files \in {<<f1, f2>> : f1 \in FileStates, f2 \in FileStates}
  /\ quotes = <<>>
  /\ pc = "files"
  /\ AstroIdle
  /\ user_name = "" /\ message = <<>>
  /\ DeltaIdle
  /\ BotIdle

\* app.bot_data["quotes"] = load_quotes(quotes_dir)
LoadQuotes ==
  /\ pc = "files"
  /\ quotes' = load_quotes(quote_files)
  /\ pc' = "loaded"
  /\ UNCHANGED <<natal, transit, aspects, user_name, message, quote_files,
                 lon_t, lon_n, dist,
                 raw, calls, bot_vars>>

NextQuotes == LoadQuotes

SpecQuotes == InitQuotes /\ [][NextQuotes]_vars

(***************************************************************************)
(* Properties of render_daily_message.                                     *)
(***************************************************************************)
IsBulletLine(line) == Len(line) >= 1 /\ line[1] = "* "

\* The position of the first line equal to line, 0 when there is none.
Pos(line) ==
  IF \E k \in 1..Len(message) : message[k] = line
  THEN CHOOSE k \in 1..Len(message) :
         message[k] = line /\ \A j \in 1..(k - 1) : message[j] # line
  ELSE 0

\* The bullet lines strictly between two positions.
BulletsIn(from, to) ==
  {k \in 1..Len(message) : from < k /\ k < to /\ IsBulletLine(message[k])}

MotifBullets ==
  IF Pos(<<"Energii dnya:">>) = 0 THEN {}
  ELSE BulletsIn(Pos(<<"Energii dnya:">>), Pos(<<"Deystvuy:">>))

ActionBullets == BulletsIn(Pos(<<"Deystvuy:">>), Pos(<<"Kategoricheski:">>))

AvoidBullets ==
  BulletsIn(Pos(<<"Kategoricheski:">>), Pos(<<"Utrenniy ritual (5 minut):">>))

\* The (transit body, aspect verb) of a motif bullet; the verb names the kind.
MotifKey(k) == <<message[k][2], message[k][4]>>

SectionHeaders ==
  { <<"Energii dnya:">>, <<"Deystvuy:">>, <<"Kategoricheski:">>,
    <<"Utrenniy ritual (5 minut):">>, <<"Deviz dnya:">> }

QuoteSet == {quotes[i] : i \in 1..Len(quotes)}

LastLine == message[Len(message)]

\* C7: for a non-empty event list the message has at most 5 motif bullets,
\* at most 2 action bullets and at most 2 avoidance bullets, and no two motif
\* bullets have the same (transit body, aspect kind).
C7_BulletCaps ==
  (pc = "rendered" /\ aspects # <<>>) =>
    /\ 0 < Pos(<<"Deystvuy:">>)
    /\ Pos(<<"Deystvuy:">>) < Pos(<<"Kategoricheski:">>)
    /\ Pos(<<"Kategoricheski:">>) < Pos(<<"Utrenniy ritual (5 minut):">>)
    /\ Cardinality(MotifBullets) <= 5
    /\ Cardinality(ActionBullets) <= 2
    /\ Cardinality(AvoidBullets) <= 2
    /\ \A j \in MotifBullets, k \in MotifBullets : j # k => MotifKey(j) # MotifKey(k)

\* C7's case: more than five events, two of the first five with the same
\* key, and a message with all its bullets.
C7_Witness ==
  /\ pc = "rendered"
  /\ Len(aspects) >= 7
  /\ \E i \in 1..5, j \in 1..5 :
       i < j /\ aspects[i][1] = aspects[j][1] /\ aspects[i][3] = aspects[j][3]
  /\ Cardinality(MotifBullets) = 4
  /\ Cardinality(ActionBullets) = 2
  /\ Cardinality(AvoidBullets) = 2

\* C8: for an empty event list the message is the greeting, the quiet-day
\* line, an empty line and exactly one quote line, with no motif, action or
\* avoidance section.
C8_QuietDay ==
  (pc = "rendered" /\ aspects = <<>>) =>
    /\ Len(message) = 4
    /\ message[1] = <<"Dobroe utro, ", user_name, "!">>
    /\ message[2] = <<"Segodnya spokoynyy den'. Bud' myagok k sebe.">>
    /\ message[3] = <<"">>
    /\ message[4] \in QuoteSet \cup {<<"Osoznannost' sozdayot svobodu.">>}
    /\ \A k \in 1..Len(message) :
         message[k] \notin SectionHeaders /\ ~IsBulletLine(message[k])

\* C8's case: a quiet-day message for a named user and a pool of two quotes.
C8_Witness ==
  /\ pc = "rendered"
  /\ aspects = <<>>
  /\ user_name = "Anna"
  /\ Len(quotes) = 2
  /\ Len(message) = 4

\* C9: in both branches the closing quote is an element of the pool when the
\* pool is not empty and the fixed default string when it is empty, and
\* every element of a non-empty pool can be drawn.
C9_ClosingQuote ==
  /\ pc = "rendered" =>
       IF quotes # <<>> THEN LastLine \in QuoteSet
       ELSE LastLine = <<"Osoznannost' sozdayot svobodu.">>
  /\ pc = "events" =>
       \A i \in 1..Len(quotes) :
         ENABLED (RenderDailyMessage /\ message'[Len(message')] = quotes[i])

\* C9's case: the events branch closes with the second quote of a pool of
\* two.
C9_Witness ==
  /\ pc = "rendered"
  /\ aspects # <<>>
  /\ Len(quotes) = 2
  /\ LastLine = quotes[2]
  /\ LastLine # quotes[1]

(***************************************************************************)
(* Properties of load_quotes.                                              *)
(***************************************************************************)
NonBlank(line) == \E i \in 1..Len(line) : line[i] \notin {" ", "\t", "\n"}

\* The (file, line) positions of the non-blank lines of the existing files.
NonBlankLines ==
  {<<k, j>> \in (1..Len(quote_files)) \X (1..MaxLines) :
     /\ quote_files[k].exists
     /\ j <= Len(quote_files[k].lines)
     /\ NonBlank(quote_files[k].lines[j])}

\* C10: load_quotes never returns an empty pool: with both files missing, or
\* present with blank lines only, it returns exactly the 3 built-in strings;
\* with a non-blank line it returns one quote per non-blank line and none of
\* the built-in strings.
C10_NeverEmpty ==
  pc = "loaded" =>
    /\ quotes # <<>>
    /\ NonBlankLines = {} =>
         quotes = << <<"My - magnit. My prityagivaem to, chem yavlyaemsya.">>,
                     <<"Blagodarnost' uskoryaet potok izobiliya.">>,
                     <<"Ya pozvolyayu sebe mechtat' - i delayu odin shag segodnya.">> >>
    /\ NonBlankLines # {} =>
         /\ Len(quotes) = Cardinality(NonBlankLines)
         /\ \A i \in 1..Len(quotes) :
              \E p \in NonBlankLines : quotes[i] = Strip(quote_files[p[1]].lines[p[2]])

\* C10's case: secret.txt is missing, happy_pocket.txt holds blank lines
\* only, and the pool is the built-in one.
C10_Witness ==
  /\ pc = "loaded"
  /\ ~quote_files[1].exists
  /\ quote_files[2].exists
  /\ Len(quote_files[2].lines) = 2
  /\ Len(quotes) = 3

\* A line without its leading and trailing whitespace: the pieces from the
\* first to the last one that is not a whitespace character.
Trimmed(line) ==
  LET solid == {i \in 1..Len(line) : line[i] \notin {" ", "\t", "\n"}}
  IN IF solid = {} THEN <<>>
     ELSE SubSeq(line, CHOOSE i \in solid : \A j \in solid : i <= j,
                       CHOOSE i \in solid : \A j \in solid : j <= i)

\* The place of a non-blank line among the non-blank lines, secret.txt
\* before happy_pocket.txt and each file in line order.
QuoteRank(p) ==
  Cardinality({q \in NonBlankLines : q[1] < p[1] \/ (q[1] = p[1] /\ q[2] <= p[2])})

\* C11: load_quotes returns exactly the trimmed non-empty lines of the
\* existing sources, in file order within a source and secret.txt before
\* happy_pocket.txt, with no deduplication: one quote per non-blank line.
C11_LinesInOrder ==
  (pc = "loaded" /\ NonBlankLines # {}) =>
    /\ Len(quotes) = Cardinality(NonBlankLines)
    /\ \A p \in NonBlankLines :
         quotes[QuoteRank(p)] = Trimmed(quote_files[p[1]].lines[p[2]])

\* C11's case: both files exist, the same quote stands in both and is kept
\* twice, after a quote of the first file.
C11_Witness ==
  /\ pc = "loaded"
  /\ quote_files[1].exists /\ quote_files[2].exists
  /\ Len(quote_files[1].lines) = 2 /\ Len(quote_files[2].lines) = 2
  /\ Len(quotes) = 3
  /\ quotes[2] = quotes[3]
  /\ quotes[1] # quotes[2]
  /\ <<1, 2>> \in NonBlankLines /\ <<2, 2>> \in NonBlankLines

(***************************************************************************)
(* Chart resolution: AstrologyEngine._tz_aware_time, natal_chart and       *)
(* transit_chart, with the arguments confirm_first and send_daily_message  *)
(* pass them.                                                              *)
(*                                                                         *)
(* A text is modelled by its split form: the sequence of the pieces        *)
(* str.split leaves between the separators ("." in a date, ":" in a time). *)
(* A piece int() accepts carries its value; int() raises ValueError on any *)
(* other piece.  A NULL column (Python None) is the empty sequence, which  *)
(* no split produces.  A missing timezone is the empty string.             *)
(***************************************************************************)
Num(v) == [int |-> TRUE, val |-> v]

Junk == [int |-> FALSE, val |-> 0]

None == <<>>

DateOf(d, m, y) == <<Num(d), Num(m), Num(y)>>

TimeOf(hh, mm) == <<Num(hh), Num(mm)>>

\* a, b, c = map(int, text.split(sep)): the text has exactly n pieces and
\* int() accepts each of them
Unpacks(text, n) == Len(text) = n /\ \A i \in 1..n : text[i].int

IsLeap(year) == year % 4 = 0 /\ (year % 100 # 0 \/ year % 400 = 0)

DaysInMonth(year, month) ==
  IF month = 2 THEN (IF IsLeap(year) THEN 29 ELSE 28)
  ELSE IF month \in {4, 6, 9, 11} THEN 30 ELSE 31

\* datetime(year, month, day, hour, minute) raises ValueError outside these
\* ranges
DatetimeAccepts(year, month, day, hour, minute) ==
  /\ year \in 1..9999
  /\ month \in 1..12
  /\ day \in 1..DaysInMonth(year, month)
  /\ hour \in 0..23
  /\ minute \in 0..59

\* the zones of the tz database the model knows
KnownZones == {"Europe/Moscow", "UTC"}

NoZone == "None"

LocalZone == "local"

\* dateutil.tz.gettz(name): the zone of that name, the local zone for an
\* empty name, None for a name the tz database does not have
gettz(name) ==
  IF name = "" THEN LocalZone
  ELSE IF name \in KnownZones THEN name ELSE NoZone

Raised == [status |-> "error", at |-> <<>>, zone |-> NoZone]

Pending == [status |-> "pending", at |-> <<>>, zone |-> NoZone]

Resolved(at, zone) == [status |-> "ok", at |-> at, zone |-> zone]

\* a from_datetime that would take a datetime without tzinfo
from_datetime_naive(at, tz_info) == Resolved(at, tz_info)

\* Timescale.from_datetime(dt) raises ValueError on a datetime without tzinfo
from_datetime(at, tz_info) ==
  IF tz_info = NoZone THEN Raised ELSE Resolved(at, tz_info)

\* AstrologyEngine._tz_aware_time(birth_date, birth_time, timezone)
tz_aware_time(birth_date, birth_time, timezone) ==
  IF ~Unpacks(birth_date, 3) \/ ~Unpacks(birth_time, 2) THEN Raised
  ELSE LET day == birth_date[1].val
           month == birth_date[2].val
           year == birth_date[3].val
           hour == birth_time[1].val
           minute == birth_time[2].val
           tz_info == gettz(timezone)
       IN IF ~DatetimeAccepts(year, month, day, hour, minute) THEN Raised
          ELSE from_datetime(<<year, month, day, hour, minute>>, tz_info)

\* AstrologyEngine.natal_chart: the chart of the birth instant.  The
\* ephemeris is a function of the instant, so the chart is identified by the
\* instant it is computed for.
natal_chart(birth_date, birth_time, timezone) ==
  tz_aware_time(birth_date, birth_time, timezone)

\* AstrologyEngine.transit_chart at clock reading now
transit_chart(timezone, now) == from_datetime(<<now>>, gettz(timezone))

DefaultTimezone == "Europe/Moscow"

\* user.timezone or "Europe/Moscow"
TimezoneOrDefault(u) == IF u.timezone = "" THEN DefaultTimezone ELSE u.timezone

\* A row of the users table (database.py, User): the columns the handlers
\* read.  exists is FALSE while the table has no row for the user.
UserRow(name, birth_date, birth_place, birth_time, daily_time, timezone, paid) ==
  [exists |-> TRUE, name |-> name, birth_date |-> birth_date,
   birth_place |-> birth_place, birth_time |-> birth_time,
   daily_time |-> daily_time, timezone |-> timezone, is_subscribed |-> paid]

NoUser ==
  [exists |-> FALSE, name |-> "", birth_date |-> None, birth_place |-> "",
   birth_time |-> None, daily_time |-> None, timezone |-> "",
   is_subscribed |-> FALSE]

\* birth_date columns: calendar dates, dates no calendar has, texts that do
\* not unpack into three integers, and NULL
StoredDates ==
  {DateOf(27, 11, 1997), DateOf(29, 2, 2000), DateOf(27, 11, 97),
   DateOf(29, 2, 1900), DateOf(31, 4, 1997), DateOf(0, 1, 2000),
   DateOf(27, 13, 2000), DateOf(1, 1, 0),
   <<Num(27), Num(11)>>, <<Junk, Num(11), Num(1997)>>, None}

\* birth_time columns, likewise
StoredTimes ==
  {TimeOf(14, 30), TimeOf(0, 0), TimeOf(23, 59),
   TimeOf(24, 0), TimeOf(12, 60), TimeOf(-1, 30),
   <<Num(12)>>, <<Junk, Num(30)>>, <<Num(12), Num(30), Num(15)>>, None}

\* timezone columns: config.timezone as upsert_user_basic stored it, which
\* is the TIMEZONE environment variable: a zone, a name the tz database
\* does not have, or the empty string
Timezones == KnownZones \cup {"", "Mars/Phobos"}

NoDigest == [natal |-> Pending, transit |-> Pending]

DialogIdle ==
  /\ CrowdIdle
  /\ raw = <<>> /\ calls = <<>>
  /\ config = <<>>
  /\ user_data = <<>> /\ conv = "" /\ reply = "" /\ job = <<>> /\ sent = <<>>

InitResolve ==
  /\ user \in {UserRow("Anna", d, "Moscow", t, TimeOf(10, 0), z, TRUE) :
                 d \in StoredDates, t \in StoredTimes, z \in Timezones}
  /\ digest = NoDigest
  /\ clock = 1
  /\ pc = "resolve"
  /\ DialogIdle
  /\ AstroIdle
  /\ RenderIdle
  /\ QuotesIdle
  /\ DeltaIdle

\* natal = engine.natal_chart(user.birth_date, user.birth_time,
\*                            user.timezone or "Europe/Moscow")
ResolveNatal ==
  /\ pc = "resolve"
  /\ digest.natal = Pending
  /\ digest' = [digest EXCEPT !.natal =
       natal_chart(user.birth_date, user.birth_time, TimezoneOrDefault(user))]
  /\ UNCHANGED <<natal, transit, aspects, user_name, quotes, message,
                 quote_files, lon_t, lon_n, dist, raw, calls, pc,
                 config, user, user_data, conv, reply, job, clock, sent,
                 crowd_vars>>

\* transit = engine.transit_chart(user.timezone or "Europe/Moscow")
ResolveTransit ==
  /\ pc = "resolve"
  /\ digest.transit = Pending
  /\ digest' = [digest EXCEPT !.transit =
       transit_chart(TimezoneOrDefault(user), clock)]
  /\ UNCHANGED <<natal, transit, aspects, user_name, quotes, message,
                 quote_files, lon_t, lon_n, dist, raw, calls, pc,
                 config, user, user_data, conv, reply, job, clock, sent,
                 crowd_vars>>

NextResolve == ResolveNatal \/ ResolveTransit

SpecResolve == InitResolve /\ [][NextResolve]_vars

\* A text that names a day of the calendar as DD.MM.YYYY
IsCalendarDate(text) ==
  /\ Len(text) = 3
  /\ \A i \in 1..3 : text[i].int
  /\ LET d == text[1].val
         m == text[2].val
         y == text[3].val
     IN /\ y >= 1 /\ y <= 9999 /\ m >= 1 /\ m <= 12 /\ d >= 1 /\ d <= 31
        /\ (d = 31 => m \in {1, 3, 5, 7, 8, 10, 12})
        /\ (m = 2 => d <= 28 \/ (d = 29 /\ IsLeap(y)))

\* A text that names a minute of the day as HH:MM
IsClockTime(text) ==
  /\ Len(text) = 2
  /\ \A i \in 1..2 : text[i].int
  /\ text[1].val >= 0 /\ text[1].val < 24
  /\ text[2].val >= 0 /\ text[2].val < 60

BirthInstant(u) ==
  <<u.birth_date[3].val, u.birth_date[2].val, u.birth_date[1].val,
    u.birth_time[1].val, u.birth_time[2].val>>

\* C12 as stated: a natal chart is resolved only from a birth date and time
\* that parse and a timezone name the tz database has, a transit chart only
\* from such a timezone name; a missing timezone gets no chart, since nothing
\* stands in for it.
C12_NeverDefaulted ==
  /\ digest.natal.status = "ok" =>
       /\ IsCalendarDate(user.birth_date)
       /\ IsClockTime(user.birth_time)
       /\ user.timezone \in KnownZones
  /\ digest.transit.status = "ok" => user.timezone \in KnownZones

\* C12 amended: resolving the natal chart fails whenever the birth date or
\* time does not parse or the timezone name is not empty and unknown, and
\* resolving the transit chart fails for such a timezone name; a resolved
\* natal chart is for exactly the stored date and time; an empty timezone is
\* replaced by Europe/Moscow, and both charts are resolved in that zone.
C12_DefaultsOnlyTimezone ==
  /\ digest.natal # Pending =>
       /\ digest.natal.status = "ok" <=>
            /\ IsCalendarDate(user.birth_date)
            /\ IsClockTime(user.birth_time)
            /\ user.timezone \in KnownZones \cup {""}
       /\ digest.natal.status = "ok" =>
            /\ digest.natal.at = BirthInstant(user)
            /\ digest.natal.zone =
                 IF user.timezone = "" THEN "Europe/Moscow" ELSE user.timezone
  /\ digest.transit # Pending =>
       /\ digest.transit.status = "ok" <=> user.timezone \in KnownZones \cup {""}
       /\ digest.transit.status = "ok" =>
            digest.transit.zone =
              IF user.timezone = "" THEN "Europe/Moscow" ELSE user.timezone

\* a 29 February of a year that is no leap year fails in a known zone, and
\* the transit chart of that zone is resolved
C12_Witness ==
  /\ user.birth_date = DateOf(29, 2, 1900)
  /\ user.birth_time = TimeOf(14, 30)
  /\ user.timezone = "UTC"
  /\ digest.natal = Raised
  /\ digest.transit.status = "ok"

(***************************************************************************)
(* The bot (src/astro_bot/bot.py) for one user in a private chat: the      *)
(* registration dialogue, the menu's send-time edit, the daily job and the *)
(* payment, over the users and messages tables (database.py).              *)
(*                                                                         *)
(* Dispatch is python-telegram-bot's: the handlers form one group and the  *)
(* first handler that accepts an update handles it.  The conversation      *)
(* handler comes first: it accepts /start only while no conversation is    *)
(* open, a text in the five text states, and the "talk" button in CONFIRM; *)
(* every other text goes to handle_text and every other button to          *)
(* menu_callback.                                                          *)
(***************************************************************************)
MaxClock == 2

NoConversation == "END"

TextStates == {"ASK_NAME", "ASK_BDATE", "ASK_BPLACE", "ASK_BTIME", "ASK_SENDTIME"}

\* context.user_data: a key holds <<>> while unset and <<value>> once set
NoUserData ==
  [name |-> <<>>, bdate |-> <<>>, bplace |-> <<>>, btime |-> <<>>,
   send_time |-> <<>>, await_time |-> <<>>]

\* the texts a user sends: date texts are written without padding, so a year
\* below 1000 has fewer than four digits
NameTexts == {"anna", "Bob"}

PlaceTexts == {"Moscow"}

DateTexts ==
  {DateOf(27, 11, 1997), DateOf(29, 2, 2000),
   DateOf(29, 2, 1900), DateOf(27, 11, 97), <<Num(27), Num(11)>>}

TimeTexts ==
  {TimeOf(18, 25), TimeOf(10, 5), TimeOf(24, 0), <<Junk, Num(30)>>}

\* text.strip().title()[:64] on the names above
Title(text) == IF text = "anna" THEN "Anna" ELSE text

\* a strptime that would take whatever unpacks into three integers
strptime_accepts_any(text) == Unpacks(text, 3)

\* datetime.strptime(text, "%d.%m.%Y") returns: %Y takes four digits, and
\* the day must exist in the month
strptime_accepts(text) ==
  /\ Unpacks(text, 3)
  /\ text[3].val \in 1000..9999
  /\ text[2].val \in 1..12
  /\ text[1].val \in 1..DaysInMonth(text[3].val, text[2].val)

\* parse_time_str(value): time(hh, mm) as <<hh, mm>>, or None
parse_time_str(value) ==
  IF Unpacks(value, 2)
     /\ 0 <= value[1].val /\ value[1].val < 24
     /\ 0 <= value[2].val /\ value[2].val < 60
  THEN <<value[1].val, value[2].val>>
  ELSE None

\* an upsert that would replace the row (INSERT OR REPLACE)
upsert_user_basic_replace(u, timezone) ==
  UserRow("", None, "", None, None, timezone, FALSE)

\* Database.upsert_user_basic: a new row keeps only the timezone; an
\* existing row keeps every column the model has
upsert_user_basic(u, timezone) ==
  IF u.exists THEN u
  ELSE UserRow("", None, "", None, None, timezone, FALSE)

\* Database.set_user_profile: UPDATE ... WHERE user_id = ?
set_user_profile(u, name, birth_date, birth_place, birth_time, daily_time) ==
  IF ~u.exists THEN u
  ELSE [u EXCEPT !.name = name, !.birth_date = birth_date,
                 !.birth_place = birth_place, !.birth_time = birth_time,
                 !.daily_time = daily_time]

\* Database.set_daily_time: UPDATE ... WHERE user_id = ?
set_daily_time(u, daily_time) ==
  IF ~u.exists THEN u ELSE [u EXCEPT !.daily_time = daily_time]

\* a payment that would flip the flag: a second payment ends the subscription
set_subscription_toggle(u) ==
  IF ~u.exists THEN u ELSE [u EXCEPT !.is_subscribed = ~u.is_subscribed]

\* Database.set_subscription: UPDATE ... WHERE user_id = ?
set_subscription(u) ==
  IF ~u.exists THEN u ELSE [u EXCEPT !.is_subscribed = TRUE]

\* schedule_user_job: the one job named daily_<user_id>, at time(hh, mm)
schedule_user_job(time_str) == <<<<time_str[1].val, time_str[2].val>>>>

NoJob == <<>>

\* user.daily_time or "10:00"
DailyTimeOrDefault(u) ==
  IF u.daily_time = None THEN TimeOf(10, 0) ELSE u.daily_time

\* user.name or the fallback name
NameOrDefault(u) == IF u.name = "" THEN "drug" ELSE u.name

astro_vars == <<natal, transit, aspects, user_name, quotes, message,
                quote_files, lon_t, lon_n, dist, raw, calls, pc>>

InitBot ==
  /\ config \in {[timezone |-> z] : z \in Timezones}
  /\ user = NoUser
  /\ user_data = NoUserData
  /\ conv = NoConversation
  /\ reply = ""
  /\ job = NoJob
  /\ digest = NoDigest
  /\ clock = 0
  /\ sent = <<>>
  /\ raw = <<>> /\ calls = <<>>
  /\ CrowdIdle
  /\ pc = "bot"
  /\ AstroIdle
  /\ RenderIdle
  /\ QuotesIdle
  /\ DeltaIdle

\* start: /start while no conversation is open
Start ==
  /\ conv = NoConversation
  /\ user' = upsert_user_basic(user, config.timezone)
  /\ reply' = "welcome"
  /\ conv' = "ASK_NAME"
  /\ UNCHANGED <<astro_vars, crowd_vars, config, user_data, job, digest, clock, sent>>

\* ask_name
AskName ==
  /\ conv = "ASK_NAME"
  /\ \E text \in NameTexts :
       user_data' = [user_data EXCEPT !.name = <<Title(text)>>]
  /\ reply' = "ask_bdate"
  /\ conv' = "ASK_BDATE"
  /\ UNCHANGED <<astro_vars, crowd_vars, config, user, job, digest, clock, sent>>

\* ask_bdate on the message text
AskBdateWith(text) ==
  /\ conv = "ASK_BDATE"
  /\ IF ~strptime_accepts(text)
     THEN /\ reply' = "bad_date"
          /\ UNCHANGED <<user_data, conv>>
     ELSE /\ user_data' = [user_data EXCEPT !.bdate = <<text>>]
          /\ reply' = "ask_bplace"
          /\ conv' = "ASK_BPLACE"
  /\ UNCHANGED <<astro_vars, crowd_vars, config, user, job, digest, clock, sent>>

AskBdate == \E text \in DateTexts : AskBdateWith(text)

\* ask_bplace
AskBplace ==
  /\ conv = "ASK_BPLACE"
  /\ \E text \in PlaceTexts :
       user_data' = [user_data EXCEPT !.bplace = <<text>>]
  /\ reply' = "ask_btime"
  /\ conv' = "ASK_BTIME"
  /\ UNCHANGED <<astro_vars, crowd_vars, config, user, job, digest, clock, sent>>

\* ask_btime on the message text
AskBtimeWith(text) ==
  /\ conv = "ASK_BTIME"
  /\ IF parse_time_str(text) = None
     THEN /\ reply' = "bad_time"
          /\ UNCHANGED <<user_data, conv>>
     ELSE /\ user_data' = [user_data EXCEPT !.btime = <<text>>]
          /\ reply' = "ask_sendtime"
          /\ conv' = "ASK_SENDTIME"
  /\ UNCHANGED <<astro_vars, crowd_vars, config, user, job, digest, clock, sent>>

AskBtime == \E text \in TimeTexts : AskBtimeWith(text)

\* ask_sendtime on the message text
AskSendtimeWith(text) ==
  /\ conv = "ASK_SENDTIME"
  /\ IF parse_time_str(text) = None
     THEN /\ reply' = "bad_time"
          /\ UNCHANGED <<user_data, user, conv>>
     ELSE /\ user_data' = [user_data EXCEPT !.send_time = <<text>>]
          /\ user' = set_user_profile(user, user_data.name[1],
                       user_data.bdate[1], user_data.bplace[1],
                       user_data.btime[1], text)
          /\ reply' = "ready"
          /\ conv' = "CONFIRM"
  /\ UNCHANGED <<astro_vars, crowd_vars, config, job, digest, clock, sent>>

AskSendtime == \E text \in TimeTexts : AskSendtimeWith(text)

\* natal = engine.natal_chart(...); transit = engine.transit_chart(...):
\* the second call is not reached when the first raises
Charts(u, now) ==
  LET n == natal_chart(u.birth_date, u.birth_time, TimezoneOrDefault(u))
  IN [natal |-> n,
      transit |-> IF n.status = "ok"
                  THEN transit_chart(TimezoneOrDefault(u), now) ELSE Pending]

ChartsRaise(charts) ==
  charts.natal.status # "ok" \/ charts.transit.status # "ok"

\* confirm_first: the "talk" button in CONFIRM.  An exception leaves the
\* conversation in CONFIRM.
ConfirmFirst ==
  /\ conv = "CONFIRM"
  /\ clock < MaxClock
  /\ IF ~user.exists
     THEN /\ reply' = "profile_not_found"
          /\ conv' = NoConversation
          /\ UNCHANGED <<digest, sent, job, clock>>
     ELSE LET charts == Charts(user, clock + 1)
          IN /\ digest' = charts
             /\ IF ChartsRaise(charts)
                THEN UNCHANGED <<reply, conv, sent, job, clock>>
                ELSE /\ sent' = Append(sent, NameOrDefault(user))
                     /\ job' = schedule_user_job(DailyTimeOrDefault(user))
                     /\ reply' = "first_sent"
                     /\ conv' = NoConversation
                     /\ clock' = clock + 1
  /\ UNCHANGED <<astro_vars, crowd_vars, config, user, user_data>>

\* send_daily_message: the user's daily job fires
SendDailyMessage ==
  /\ job # NoJob
  /\ clock < MaxClock
  /\ IF ~user.exists
     THEN UNCHANGED <<reply, digest, sent, clock>>
     ELSE IF ~user.is_subscribed
     THEN /\ reply' = "subscribe_prompt"
          /\ UNCHANGED <<digest, sent, clock>>
     ELSE LET charts == Charts(user, clock + 1)
          IN /\ digest' = charts
             /\ IF ChartsRaise(charts)
                THEN UNCHANGED <<reply, sent, clock>>
                ELSE /\ sent' = Append(sent, NameOrDefault(user))
                     /\ reply' = "digest"
                     /\ clock' = clock + 1
  /\ UNCHANGED <<astro_vars, crowd_vars, config, user, user_data, conv, job>>

\* menu_callback, query.data == "edit_time"
MenuEditTime ==
  /\ user_data' = [user_data EXCEPT !.await_time = <<TRUE>>]
  /\ reply' = "enter_time"
  /\ UNCHANGED <<astro_vars, crowd_vars, config, user, conv, job, digest, clock, sent>>

\* handle_text on the message text: a text outside the text states of the
\* dialogue
HandleTextWith(text) ==
  /\ conv \notin TextStates
  /\ IF user_data.await_time # <<TRUE>>
     THEN UNCHANGED <<user, user_data, reply, job>>
     ELSE IF parse_time_str(text) = None
     THEN /\ reply' = "bad_time_again"
          /\ UNCHANGED <<user, user_data, job>>
     ELSE /\ user' = set_daily_time(user, text)
          /\ job' = schedule_user_job(text)
          /\ reply' = "time_updated"
          /\ user_data' = [user_data EXCEPT !.await_time = <<FALSE>>]
  /\ UNCHANGED <<astro_vars, crowd_vars, config, conv, digest, clock, sent>>

HandleText == \E text \in TimeTexts : HandleTextWith(text)

\* successful_payment_callback
SuccessfulPayment ==
  /\ user' = set_subscription(user)
  /\ reply' = "paid"
  /\ UNCHANGED <<astro_vars, crowd_vars, config, user_data, conv, job, digest, clock, sent>>

\* post_init after a restart of the process: conversations, user_data and
\* jobs are in memory only; a job is scheduled for a row with a daily_time
PostInit ==
  /\ conv' = NoConversation
  /\ user_data' = NoUserData
  /\ reply' = ""
  /\ job' = IF user.exists /\ user.daily_time # None
            THEN schedule_user_job(user.daily_time) ELSE NoJob
  /\ UNCHANGED <<astro_vars, crowd_vars, config, user, digest, clock, sent>>

NextBot ==
  \/ Start \/ AskName \/ AskBdate \/ AskBplace \/ AskBtime \/ AskSendtime
  \/ ConfirmFirst \/ SendDailyMessage \/ MenuEditTime \/ HandleText
  \/ SuccessfulPayment \/ PostInit

SpecBot == InitBot /\ [][NextBot]_vars

\* A date written DD.MM.YYYY: a day of the calendar in a four-digit year
IsBirthDate(text) == IsCalendarDate(text) /\ text[3].val >= 1000

StoredProfile == <<user.name, user.birth_date, user.birth_place,
                   user.birth_time, user.daily_time>>

\* The handler asks again and nothing it keeps has changed
Reenter(prompt) ==
  /\ reply' = prompt
  /\ conv' = conv
  /\ user_data' = user_data
  /\ StoredProfile' = StoredProfile

\* C13: in the registration dialogue a malformed birth date (ASK_BDATE),
\* birth time (ASK_BTIME) or send time (ASK_SENDTIME) makes the handler ask
\* for the value again: the conversation stays in its state, and
\* context.user_data and the stored profile are as before.  A valid value,
\* and only a valid value, is kept and moves the dialogue to the next state.
C13_MalformedReenters ==
  [][/\ \A text \in DateTexts : AskBdateWith(text) =>
          IF IsBirthDate(text)
          THEN conv' = "ASK_BPLACE" /\ user_data'.bdate = <<text>>
          ELSE Reenter("bad_date")
     /\ \A text \in TimeTexts : AskBtimeWith(text) =>
          IF IsClockTime(text)
          THEN conv' = "ASK_SENDTIME" /\ user_data'.btime = <<text>>
          ELSE Reenter("bad_time")
     /\ \A text \in TimeTexts : AskSendtimeWith(text) =>
          IF IsClockTime(text)
          THEN /\ conv' = "CONFIRM"
               /\ user_data'.send_time = <<text>>
               /\ user'.daily_time = text
          ELSE Reenter("bad_time")
     /\ conv' # conv /\ conv \in {"ASK_BDATE", "ASK_BTIME", "ASK_SENDTIME"} =>
          \/ conv' = NoConversation /\ reply' = ""
          \/ conv = "ASK_BDATE" /\ IsBirthDate(user_data'.bdate[1])
          \/ conv = "ASK_BTIME" /\ IsClockTime(user_data'.btime[1])
          \/ conv = "ASK_SENDTIME" /\ IsClockTime(user_data'.send_time[1])
    ]_vars

\* a second registration: the malformed date was refused and the date of the
\* first registration is still in user_data and in the stored profile
C13_Witness ==
  /\ conv = "ASK_BDATE"
  /\ reply = "bad_date"
  /\ user_data.bdate = <<DateOf(27, 11, 1997)>>
  /\ user.birth_date = DateOf(27, 11, 1997)
  /\ clock = 1

\* C14: after the menu's "edit time" button (await_time set), handle_text on
\* a malformed time asks again and leaves daily_time, the scheduled job and
\* await_time as they were; on a valid time it stores the text as daily_time,
\* reschedules the daily job to that time and clears await_time.  While
\* await_time is not set handle_text changes nothing.
C14_EditSendTime ==
  [][\A text \in TimeTexts : HandleTextWith(text) =>
       IF user_data.await_time # <<TRUE>> THEN UNCHANGED vars
       ELSE IF IsClockTime(text)
       THEN /\ user'.daily_time = text
            /\ job' = <<<<text[1].val, text[2].val>>>>
            /\ user_data'.await_time # <<TRUE>>
       ELSE /\ reply' = "bad_time_again"
            /\ user'.daily_time = user.daily_time
            /\ job' = job
            /\ user_data'.await_time = user_data.await_time
    ]_vars

BirthColumns == <<user.birth_date, user.birth_time, user.timezone>>

\* C15 as stated: the natal chart of the user's digests is fixed: whenever
\* two digests were generated, the later one used the natal chart of the
\* earlier one; the transit chart of every digest is computed at the time of
\* that digest.
C15_NatalImmutable ==
  [][/\ digest.natal.status = "ok" /\ digest'.natal.status = "ok" =>
          digest'.natal = digest.natal
     /\ digest' # digest /\ digest'.transit.status = "ok" =>
          digest'.transit.at = <<clock'>> /\ clock' = clock + 1
    ]_vars

\* C15 amended: no chart is stored.  Every digest computes the natal chart
\* for the birth date, birth time and timezone stored at that moment, and the
\* transit chart for the time of the digest, and writes neither to the users
\* table; the messages table gets the text alone.  The stored birth date,
\* birth time and timezone are left alone by digests, send-time edits,
\* payments and restarts; ask_sendtime, at the end of a /start dialogue,
\* overwrites the birth date and time with the ones just entered, so a
\* repeated dialogue replaces the natal chart of the digests that follow.
C15_NatalFollowsProfile ==
  [][/\ digest' # digest =>
          /\ user' = user
          /\ Len(sent') <= Len(sent) + 1
          /\ digest'.natal.status = "ok" =>
               /\ digest'.natal.at = BirthInstant(user)
               /\ digest'.transit.status = "ok"
               /\ digest'.transit.at = <<clock'>>
               /\ clock' = clock + 1
               /\ sent' = Append(sent, NameOrDefault(user))
     /\ user.exists /\ BirthColumns' # BirthColumns =>
          /\ conv = "ASK_SENDTIME" /\ conv' = "CONFIRM"
          /\ user'.birth_date = user_data.bdate[1]
          /\ user'.birth_time = user_data.btime[1]
          /\ user'.timezone = user.timezone
    ]_vars

\* the second digest, sent by the daily job after a payment and a send-time
\* edit, uses the natal chart of the stored birth instant and a transit chart
\* of its own time
C15_Witness ==
  /\ clock = 2
  /\ Len(sent) = 2
  /\ reply = "digest"
  /\ user.is_subscribed
  /\ user_data.await_time = <<FALSE>>
  /\ user.daily_time # user_data.send_time[1]
  /\ digest.natal.status = "ok"
  /\ digest.natal.at = BirthInstant(user)
  /\ digest.transit.at = <<2>>

(***************************************************************************)
(* AstrologyEngine.planets_longitudes: the ecliptic longitude the          *)
(* ephemeris gives for each body, taken modulo 360.                        *)
(***************************************************************************)
\* The raw longitudes: the floats of [-720, 720]
RawLongitudes == {x \in (0 - Deg(720))..Deg(720) : IsFloat(x)}

\* The raw values of the other bodies: negative, in range and above 360
BaseRaw ==
  [b \in Bodies |->
     CASE b = "Sun" -> Deg(10) [] b = "Moon" -> 0 - Deg(90) [] b = "Mercury" -> Deg(405)
       [] b = "Venus" -> Deg(360) [] b = "Mars" -> 0 - Deg(360)
       [] b = "Jupiter" -> Deg(300) [] OTHER -> Deg(719)]

RawCharts == {[BaseRaw EXCEPT !["Sun"] = x] : x \in RawLongitudes}

\* a loop that would store the raw values
LoopLongitudesRaw(r) == [i \in 1..Len(planets) |-> r[planets[i]]]

\* for name, body in self.planets:
\*     result[name] = float(ecliptic_lon.degrees % 360.0)
\* The values in the order of the loop.
LoopLongitudes(r) ==
  [i \in 1..Len(planets) |-> FloatMod(r[planets[i]], Deg(360))]

\* planets_longitudes, given the raw longitudes of time t: the dict the loop
\* fills
planets_longitudes(r) ==
  LET values == LoopLongitudes(r)
  IN [b \in Bodies |-> values[CHOOSE i \in 1..Len(planets) : planets[i] = b]]

InitLongitudes ==
  /\ raw \in RawCharts
  /\ natal = NoChart
  /\ transit = NoChart
  /\ aspects = <<>>
  /\ pc = "raw"
  /\ RenderIdle
  /\ QuotesIdle
  /\ DeltaIdle
  /\ calls = <<>>
  /\ CrowdIdle
  /\ config = <<>>
  /\ user = <<>> /\ user_data = <<>> /\ conv = "" /\ reply = ""
  /\ job = <<>> /\ digest = <<>> /\ clock = 0 /\ sent = <<>>

\* t = self._tz_aware_time(...); return self.planets_longitudes(t)
PlanetsLongitudes ==
  /\ pc = "raw"
  /\ natal' = planets_longitudes(raw)
  /\ pc' = "chart"
  /\ UNCHANGED <<transit, aspects, user_name, quotes, message, quote_files,
                 lon_t, lon_n, dist, raw, calls, bot_vars>>

NextLongitudes == PlanetsLongitudes

SpecLongitudes == InitLongitudes /\ [][NextLongitudes]_vars

\* The raw value x moved by whole turns into [0, 360), exactly
Turned(x) == x % Deg(360)

\* C16 as stated: the result has exactly the seven bodies, and every
\* longitude lies in [0, 360), whatever the raw value
C16_Normalized ==
  pc = "chart" =>
    /\ DOMAIN natal = Bodies
    /\ Cardinality(DOMAIN natal) = 7
    /\ \A b \in Bodies : 0 <= natal[b] /\ natal[b] < Deg(360)

\* C16 amended: the result has exactly the seven bodies and every longitude
\* lies in [0, 360].  For a raw value >= 0 it is the raw value moved by whole
\* turns into [0, 360), exactly; for a negative raw value it is that value
\* rounded to a float, so at most half a float spacing away, and it is 360
\* itself exactly when the raw value is negative and at most half the
\* spacing of the floats at 360 from zero.
C16_NormalizedUpToRounding ==
  pc = "chart" =>
    /\ DOMAIN natal = Bodies
    /\ Cardinality(DOMAIN natal) = 7
    /\ \A b \in Bodies :
         /\ 0 <= natal[b] /\ natal[b] <= Deg(360)
         /\ raw[b] >= 0 => natal[b] = Turned(raw[b])
         /\ 2 * Abs(natal[b] - Turned(raw[b])) <= Ulp(Turned(raw[b]))
         /\ natal[b] = Deg(360) <=>
              raw[b] < 0 /\ 2 * (0 - raw[b]) <= Ulp(Deg(360))

\* a Sun left of zero by more than a turn is brought into range, as are the
\* Moon at -90 and Mercury at 405
C16_Witness ==
  /\ pc = "chart"
  /\ raw["Sun"] = 0 - Deg(370)
  /\ natal["Sun"] = Deg(350)
  /\ natal["Moon"] = Deg(270)
  /\ natal["Mercury"] = Deg(45)
  /\ natal["Venus"] = 0

(***************************************************************************)
(* Repeated calls of compute_aspects on one engine, as the digests of the  *)
(* bot make them: calls records, for every call, the charts passed and the *)
(* list returned.                                                          *)
(***************************************************************************)
MaxCalls == 3

CallNatals == {[BaseNatal EXCEPT !["Sun"] = x] : x \in {Deg(10), Deg(104)}}

CallTransits ==
  {[BaseTransit EXCEPT !["Sun"] = x] : x \in {Deg(12), Deg(100), Deg(190)}}

\* a list that would outlive the call and still hold the events of the
\* call before
EventsAtEntryKept(history) ==
  IF history = <<>> THEN <<>> ELSE history[Len(history)].result

\* aspects = []: the list a call appends to is made anew by the call,
\* whatever the calls before returned
EventsAtEntry(history) == <<>>

\* compute_aspects(natal, transit) after the calls of history
CallResult(history, n_chart, t_chart) ==
  EventsAtEntry(history) \o compute_aspects(n_chart, t_chart)

InitCalls ==
  /\ natal \in CallNatals
  /\ transit \in CallTransits
  /\ aspects = <<>>
  /\ calls = <<>>
  /\ pc = "charts"
  /\ RenderIdle
  /\ QuotesIdle
  /\ DeltaIdle
  /\ raw = <<>>
  /\ CrowdIdle
  /\ config = <<>>
  /\ user = <<>> /\ user_data = <<>> /\ conv = "" /\ reply = ""
  /\ job = <<>> /\ digest = <<>> /\ clock = 0 /\ sent = <<>>

\* natal = engine.natal_chart(...); transit = engine.transit_chart(...)
ResolveCharts ==
  /\ natal' \in CallNatals
  /\ transit' \in CallTransits
  /\ UNCHANGED <<aspects, user_name, quotes, message, quote_files,
                 lon_t, lon_n, dist, raw, calls, pc, bot_vars>>

\* aspects = engine.compute_aspects(natal, transit)
CallComputeAspects ==
  /\ Len(calls) < MaxCalls
  /\ aspects' = CallResult(calls, natal, transit)
  /\ calls' = Append(calls, [natal |-> natal, transit |-> transit,
                             result |-> aspects'])
  /\ UNCHANGED <<natal, transit, user_name, quotes, message, quote_files,
                 lon_t, lon_n, dist, raw, pc, bot_vars>>

NextCalls == ResolveCharts \/ CallComputeAspects

SpecCalls == InitCalls /\ [][NextCalls]_vars

MaxEvents == 3

AnyTransitBodies == {"Moon", "Pluto"}

AnyNatalBodies == {"Sun", ""}

AnyKinds == {"Square", "Quincunx"}

AnyEvents ==
  {<<t, n, k>> : t \in AnyTransitBodies, n \in AnyNatalBodies, k \in AnyKinds}

AnyEventLists == UNION {[1..len -> AnyEvents] : len \in 0..MaxEvents}

InitRenderAny ==
  /\ aspects \in AnyEventLists
  /\ user_name \in UserNames
  /\ quotes \in QuotePools
  /\ message = <<>>
  /\ pc = "events"
  /\ natal = NoChart /\ transit = NoChart
  /\ QuotesIdle
  /\ DeltaIdle
  /\ BotIdle

SpecRenderAny == InitRenderAny /\ [][NextRender]_vars

\* The verbs and hints of the code's tables, and the fallbacks
VerbTable ==
  { <<"Conjunction", "soedinyaetsya s">>, <<"Sextile", "delaet sekstil' k">>,
    <<"Square", "kvadrat k">>, <<"Trine", "trin k">>,
    <<"Opposition", "v oppozitsii k">> }

HintTable ==
  { <<"Moon", "Square", "Emotsii mogut prygat' v raznye storony - dyshi glubzhe.">>,
    <<"Mars", "Trine", "Legche skazat' smeloe 'net'.">>,
    <<"Venus", "Sextile", "Muza ryadom: beri kist', slova ili muzyku.">>,
    <<"Saturn", "Opposition",
      "Ne peregruzhay sebya obyazannostyami - struktura, a ne strogost'.">>,
    <<"Jupiter", "Trine", "Optimizm pomogaet uvidet' vozmozhnosti.">> }

VerbFor(kind, verb) ==
  IF \E p \in VerbTable : p[1] = kind THEN <<kind, verb>> \in VerbTable
  ELSE verb = "v aspekte k"

HintFor(body, kind, hint) ==
  IF \E p \in HintTable : p[1] = body /\ p[2] = kind
  THEN <<body, kind, hint>> \in HintTable
  ELSE hint = "Zamet', gde telo podskazyvaet napravlenie."

\* The motif bullet line k tells event e
Tells(k, e) ==
  /\ Len(message[k]) = 8
  /\ message[k][2] = e[1]
  /\ message[k][6] = e[2]
  /\ VerbFor(e[3], message[k][4])
  /\ HintFor(e[1], e[3], message[k][8])

FirstKeys == {<<aspects[i][1], aspects[i][3]>> : i \in 1..Len(aspects)}

\* C18: render_daily_message returns a message for every input of its
\* types.  The greeting carries the name as given, empty or not; every
\* (transit body, kind) of the events has its motif bullet, with the verb and
\* the hint of the tables where they have the kind and the body and with the
\* fallback verb and hint where they do not; the message ends with a quote
\* of the pool, or with the default quote when the pool is empty.
C18_NeverFails ==
  /\ pc = "events" => ENABLED RenderDailyMessage
  /\ pc = "rendered" =>
       /\ Len(message) >= 4
       /\ message[1] = <<"Dobroe utro, ", user_name, "!">>
       /\ Cardinality(MotifBullets) = Cardinality(FirstKeys)
       /\ \A k \in MotifBullets : \E i \in 1..Len(aspects) : Tells(k, aspects[i])
       /\ \A i \in 1..Len(aspects) : \E k \in MotifBullets :
            message[k][2] = aspects[i][1] /\ VerbFor(aspects[i][3], message[k][4])
       /\ IF quotes = <<>> THEN LastLine = <<"Osoznannost' sozdayot svobodu.">>
          ELSE LastLine \in QuoteSet

\* an empty name, an empty pool, and three events: a kind outside the verb
\* table, a transit body outside the hint table, and a pair the tables have
C18_Witness ==
  /\ pc = "rendered"
  /\ user_name = ""
  /\ quotes = <<>>
  /\ aspects = << <<"Moon", "Sun", "Quincunx">>, <<"Pluto", "", "Square">>,
                  <<"Moon", "Sun", "Square">> >>
  /\ Cardinality(MotifBullets) = 3
  /\ \E k \in MotifBullets : message[k][4] = "v aspekte k"
  /\ \E k \in MotifBullets :
       /\ message[k][2] = "Pluto"
       /\ message[k][8] = "Zamet', gde telo podskazyvaet napravlenie."
  /\ \E k \in MotifBullets :
       message[k][8] = "Emotsii mogut prygat' v raznye storony - dyshi glubzhe."

\* The positions of the first five events, and those among them whose
\* (transit body, kind) no earlier event has
FirstFive == {i \in 1..Len(aspects) : i <= 5}

FreshOfFirstFive ==
  {i \in FirstFive : \A j \in 1..(i - 1) :
     <<aspects[j][1], aspects[j][3]>> # <<aspects[i][1], aspects[i][3]>>}

\* The number of elements of S up to x
RankIn(S, x) == Cardinality({y \in S : y <= x})

\* C19: the motif bullets are, in input order, the events among the first 5
\* whose (transit body, kind) no earlier event has: one bullet each.  No
\* event at position 6 or later has a bullet, also when fewer than 5 bullets
\* are left after the duplicates are skipped.
C19_MotifsFromFirstFive ==
  (pc = "rendered" /\ aspects # <<>>) =>
    /\ Cardinality(MotifBullets) = Cardinality(FreshOfFirstFive)
    /\ \A k \in MotifBullets : \E i \in FreshOfFirstFive :
         /\ RankIn(MotifBullets, k) = RankIn(FreshOfFirstFive, i)
         /\ Tells(k, aspects[i])

\* seven events or more, a duplicate among the first five, and a sixth event
\* with a new transit body: four bullets, none for the sixth event
C19_Witness ==
  /\ pc = "rendered"
  /\ Len(aspects) >= 7
  /\ Cardinality(FreshOfFirstFive) = 4
  /\ \A i \in FirstFive : aspects[i][1] # aspects[6][1]
  /\ Cardinality(MotifBullets) = 4
  /\ \A k \in MotifBullets : message[k][2] # aspects[6][1]

\* The place of a body in the loops
BodyRank(b) == CHOOSE i \in 1..Len(planets) : planets[i] = b

\* C20: compute_aspects returns the events in the order of its loops: by
\* transit body, and for one transit body by natal body, both in the order
\* of the charts.  Nothing is sorted by kind or name, and events with the
\* same transit body and kind all stay.
C20_IterationOrder ==
  pc = "aspects" =>
    /\ \A i \in 1..Len(aspects), j \in 1..Len(aspects) :
         i < j =>
           \/ BodyRank(aspects[i][1]) < BodyRank(aspects[j][1])
           \/ /\ aspects[i][1] = aspects[j][1]
              /\ BodyRank(aspects[i][2]) < BodyRank(aspects[j][2])
    /\ \A t \in Bodies, n \in Bodies :
         (\E k \in Kinds : WithinOrb(PairDelta(t, n), k)) =>
           \E i \in 1..Len(aspects) : aspects[i][1] = t /\ aspects[i][2] = n

\* a list no sorting by kind or by natal body would leave as it is, with two
\* events of the same transit body and kind
C20_Witness ==
  /\ pc = "aspects"
  /\ Len(aspects) >= 5
  /\ \E i \in 1..(Len(aspects) - 1) :
       KindRank(aspects[i][3]) > KindRank(aspects[i + 1][3])
  /\ \E i \in 1..(Len(aspects) - 1) :
       BodyRank(aspects[i][2]) > BodyRank(aspects[i + 1][2])
  /\ \E i \in 1..Len(aspects), j \in 1..Len(aspects) :
       i < j /\ aspects[i][1] = aspects[j][1] /\ aspects[i][3] = aspects[j][3]

(***************************************************************************)
(* The action and avoidance sections of a digest, read off its lines.      *)
(***************************************************************************)
\* The position of the first line of msg equal to line, 0 when there is none.
PosIn(msg, line) ==
  IF \E k \in 1..Len(msg) : msg[k] = line
  THEN CHOOSE k \in 1..Len(msg) :
         msg[k] = line /\ \A j \in 1..(k - 1) : msg[j] # line
  ELSE 0

\* The bullet lines of msg between the header lines from and to, in order.
SectionOf(msg, from, to) ==
  IF PosIn(msg, from) = 0 \/ PosIn(msg, to) <= PosIn(msg, from) THEN <<>>
  ELSE SelectSeq(SubSeq(msg, PosIn(msg, from) + 1, PosIn(msg, to) - 1),
                 IsBulletLine)

ActionSection(msg) == SectionOf(msg, <<"Deystvuy:">>, <<"Kategoricheski:">>)

AvoidSection(msg) ==
  SectionOf(msg, <<"Kategoricheski:">>, <<"Utrenniy ritual (5 minut):">>)

\* The digests a digest is compared with: those of the days of one or two
\* events.
ComparedLists == {evs \in EventLists : 1 <= Len(evs) /\ Len(evs) <= 2}

\* C21: the action and avoidance sections of the digest of a non-empty event
\* list are those of the digest of any other non-empty event list, whatever
\* the name and the quote: the first two entries of the static action list and
\* the first two entries of the static avoidance list.
C21_SectionsIndependent ==
  (pc = "rendered" /\ aspects # <<>>) =>
    /\ ActionSection(message) =
         << <<"* ", "Obrati vnimanie na svoi istinnye zhelaniya">>,
            <<"* ", "Provedi nemnogo vremeni naedine s soboy">> >>
    /\ AvoidSection(message) =
         << <<"* ", "Ne ignoriruy trevogu">>,
            <<"* ", "Ne peregruzhay kalendar'">> >>
    /\ \A evs \in ComparedLists, name \in UserNames :
         LET other == render_daily_message(name, evs, <<>>, 0)
         IN /\ ActionSection(other) = ActionSection(message)
            /\ AvoidSection(other) = AvoidSection(message)

\* C21's case: a digest of a day that opens with a square and has several
\* events, both sections filled.
C21_Witness ==
  /\ pc = "rendered"
  /\ Len(aspects) >= 3
  /\ aspects[1][3] = "Square"
  /\ Len(ActionSection(message)) = 2
  /\ Len(AvoidSection(message)) = 2

\* C22: the daily job delivers a digest only to a subscribed user: for a
\* user without a row or with is_subscribed = 0 no digest is composed or sent
\* and no row is added to the message log (an unsubscribed user with a row
\* gets the subscribe prompt only); for a subscribed user exactly one digest
\* is sent and then logged.
C22_DigestOnlyToSubscribed ==
  [][SendDailyMessage =>
       IF user.exists /\ user.is_subscribed
       THEN /\ ~ChartsRaise(digest')
            /\ reply' = "digest"
            /\ sent' = Append(sent, NameOrDefault(user))
       ELSE /\ digest' = digest
            /\ sent' = sent
            /\ reply' # "digest"
            /\ user.exists => reply' = "subscribe_prompt"]_vars

\* The half of C22 about the users who are not subscribed.
C22_NothingToUnsubscribed ==
  [][(SendDailyMessage /\ ~(user.exists /\ user.is_subscribed)) =>
       /\ digest' = digest
       /\ sent' = sent
       /\ reply' # "digest"
       /\ user.exists => reply' = "subscribe_prompt"]_vars

\* The subscribed user of C22 whose job raises: a row without birth data.
C22_SubscribedWithoutProfile ==
  /\ user.exists /\ user.is_subscribed
  /\ user.birth_date = None
  /\ job # NoJob

(***************************************************************************)
(* The order of the registration dialogue.                                 *)
(***************************************************************************)
\* The steps of the dialogue: from each state to the one that follows it.
DialogueOrder ==
  { <<NoConversation, "ASK_NAME">>, <<"ASK_NAME", "ASK_BDATE">>,
    <<"ASK_BDATE", "ASK_BPLACE">>, <<"ASK_BPLACE", "ASK_BTIME">>,
    <<"ASK_BTIME", "ASK_SENDTIME">>, <<"ASK_SENDTIME", "CONFIRM">>,
    <<"CONFIRM", NoConversation>> }

\* The columns set_user_profile writes.
ProfileColumns(u) ==
  <<u.name, u.birth_date, u.birth_place, u.birth_time>>

\* The inputs context.user_data holds once the dialogue reached state s.
AcceptedBy(s) ==
  /\ s \in {"ASK_BDATE", "ASK_BPLACE", "ASK_BTIME", "ASK_SENDTIME", "CONFIRM"}
       => user_data.name # <<>>
  /\ s \in {"ASK_BPLACE", "ASK_BTIME", "ASK_SENDTIME", "CONFIRM"}
       => user_data.bdate # <<>> /\ IsBirthDate(user_data.bdate[1])
  /\ s \in {"ASK_BTIME", "ASK_SENDTIME", "CONFIRM"}
       => user_data.bplace # <<>>
  /\ s \in {"ASK_SENDTIME", "CONFIRM"}
       => user_data.btime # <<>> /\ IsClockTime(user_data.btime[1])
  /\ s = "CONFIRM"
       => user_data.send_time # <<>> /\ IsClockTime(user_data.send_time[1])

\* The row holds the inputs of this dialogue.
ProfileStored ==
  /\ user.exists
  /\ AcceptedBy("CONFIRM")
  /\ ProfileColumns(user) =
       <<user_data.name[1], user_data.bdate[1], user_data.bplace[1],
         user_data.btime[1]>>
  /\ user.daily_time # None

\* A step of one of the dialogue's handlers.
DialogueStep ==
  Start \/ AskName \/ AskBdate \/ AskBplace \/ AskBtime \/ AskSendtime
  \/ ConfirmFirst

UserIds == {1, 2}

NoCode == <<>>

\* CAST(ABS(RANDOM()) AS TEXT): the values the random draw takes in the model
RandomCodes == {<<"digits", 4809>>, <<"digits", 733>>}

\* f"u{user_id}"
UserCode(user_id) == <<"u", user_id>>

\* context.args[0] of /start, or None
Payloads == RandomCodes \cup {NoCode, UserCode(1), <<"text", 0>>}

NoRow ==
  [exists |-> FALSE, daily_time |-> None, referral_code |-> NoCode,
   referrer_id |-> 0, points |-> 0]

NoUsers == [id \in UserIds |-> NoRow]

NoConversations == [id \in UserIds |-> NoConversation]

\* f"daily_{user_id}"
JobName(user_id) == <<"daily_", user_id>>

\* A send-time edit that would leave the previous job in the queue.
schedule_user_job_keeping(queue, user_id, time_str) ==
  Append(queue, [name |-> JobName(user_id),
                 time |-> <<time_str[1].val, time_str[2].val>>,
                 data |-> user_id])

\* schedule_user_job on the job queue: every job named daily_<user_id> is
\* removed, then run_daily adds one at time(hh, mm)
schedule_user_job_for(queue, user_id, time_str) ==
  LET Others(j) == j.name # JobName(user_id)
  IN Append(SelectSeq(queue, Others),
            [name |-> JobName(user_id),
             time |-> <<time_str[1].val, time_str[2].val>>,
             data |-> user_id])

\* An upsert whose conflict clause would store the new code.
db_upsert_user_basic_recoded(table, user_id, code) ==
  [table EXCEPT ![user_id] =
     IF table[user_id].exists THEN [table[user_id] EXCEPT !.referral_code = code]
     ELSE [NoRow EXCEPT !.exists = TRUE, !.referral_code = code]]

\* Database.upsert_user_basic on the table: a new row gets the code drawn at
\* random; an existing row keeps every column the model has
db_upsert_user_basic(table, user_id, code) ==
  IF table[user_id].exists THEN table
  ELSE [table EXCEPT ![user_id] =
          [NoRow EXCEPT !.exists = TRUE, !.referral_code = code]]

\* referral_code TEXT UNIQUE: the INSERT of a new row fails when another row
\* has the code
CodeTaken(table, user_id, code) ==
  /\ ~table[user_id].exists
  /\ \E id \in UserIds : table[id].exists /\ table[id].referral_code = code

\* Database.set_user_profile, the daily_time column
db_set_user_profile(table, user_id, daily_time) ==
  IF ~table[user_id].exists THEN table
  ELSE [table EXCEPT ![user_id].daily_time = daily_time]

\* Database.set_daily_time
db_set_daily_time(table, user_id, daily_time) ==
  IF ~table[user_id].exists THEN table
  ELSE [table EXCEPT ![user_id].daily_time = daily_time]

\* Database.set_referrer
db_set_referrer(table, user_id, referrer_id) ==
  IF ~table[user_id].exists THEN table
  ELSE [table EXCEPT ![user_id].referrer_id = referrer_id]

\* Database.set_referral_code
db_set_referral_code(table, user_id, code) ==
  IF ~table[user_id].exists THEN table
  ELSE [table EXCEPT ![user_id].referral_code = code]

\* Database.get_user_by_code: the id of the row with the code, 0 for None
db_get_user_by_code(table, code) ==
  IF \E id \in UserIds : table[id].exists /\ table[id].referral_code = code
  THEN CHOOSE id \in UserIds :
         table[id].exists /\ table[id].referral_code = code
  ELSE 0

\* The points of a referral, the default of add_referral's parameter.
ReferralPoints == 10

\* A credit that would come with every second referral only.
db_add_referral_paired(db, referrer_id, referred_user_id) ==
  [users |-> IF ~db.users[referrer_id].exists \/ Len(db.referrals) % 2 = 0
             THEN db.users
             ELSE [db.users EXCEPT ![referrer_id].points = @ + ReferralPoints],
   referrals |-> Append(db.referrals, <<referrer_id, referred_user_id>>)]

\* Database.add_referral: the INSERT and the UPDATE of one transaction
db_add_referral(db, referrer_id, referred_user_id) ==
  [users |-> IF ~db.users[referrer_id].exists THEN db.users
             ELSE [db.users EXCEPT ![referrer_id].points = @ + ReferralPoints],
   referrals |-> Append(db.referrals, <<referrer_id, referred_user_id>>)]

\* ensure_user_code: the tables after the call and the code it returns
ensure_user_code(table, user_id) ==
  IF table[user_id].exists /\ table[user_id].referral_code # NoCode
  THEN [users |-> table, code |-> table[user_id].referral_code]
  ELSE [users |-> db_set_referral_code(table, user_id, UserCode(user_id)),
        code |-> UserCode(user_id)]

\* A check that would compare the codes instead of the user ids.
IsOtherUserByCode(table, ref_user, current_user_id) ==
  ref_user # 0 /\ table[ref_user].referral_code # UserCode(current_user_id)

\* if ref_user and ref_user.user_id != current_user_id
IsOtherUser(table, ref_user, current_user_id) ==
  ref_user # 0 /\ ref_user # current_user_id

\* process_start_payload: the tables after the call and the id it returns
\* (0 for None)
process_start_payload(db, current_user_id, payload) ==
  IF payload = NoCode THEN [db |-> db, id |-> 0]
  ELSE LET ref_user == db_get_user_by_code(db.users, payload)
       IN IF IsOtherUser(db.users, ref_user, current_user_id)
          THEN [db |-> db_add_referral(
                         [db EXCEPT !.users =
                            db_set_referrer(db.users, current_user_id, ref_user)],
                         ref_user, current_user_id),
                id |-> ref_user]
          ELSE [db |-> db, id |-> 0]
\* The cap on the rows of the referrals table.
MaxReferrals == 3

\* The last call of process_start_payload or ensure_user_code: the user and
\* the payload it was called with, and the user id (0 for None) or the code
\* it returned.
NoRet == [call |-> "", user |-> 0, payload |-> NoCode, id |-> 0, code |-> NoCode]

StartRet(u, payload, id) ==
  [call |-> "process_start_payload", user |-> u, payload |-> payload,
   id |-> id, code |-> NoCode]

CodeRet(u, code) ==
  [call |-> "ensure_user_code", user |-> u, payload |-> NoCode, id |-> 0,
   code |-> code]

one_vars == <<config, user, user_data, conv, reply, job, digest, clock, sent>>

OneIdle ==
  /\ config = <<>>
  /\ user = <<>> /\ user_data = <<>> /\ conv = "" /\ reply = ""
  /\ job = <<>> /\ digest = <<>> /\ clock = 0 /\ sent = <<>>

InitCrowd ==
  /\ users = NoUsers
  /\ referrals = <<>>
  /\ convs = NoConversations
  /\ awaits = {}
  /\ jobs = <<>>
  /\ outbox = <<>>
  /\ ret = NoRet
  /\ raw = <<>> /\ calls = <<>>
  /\ pc = "crowd"
  /\ OneIdle
  /\ AstroIdle
  /\ RenderIdle
  /\ QuotesIdle
  /\ DeltaIdle

\* start: /start with payload from user u while u has no conversation open;
\* code is the value RANDOM() draws.  The INSERT of a code another row has
\* raises, and the handler ends with nothing changed.
StartWith(u, payload, code) ==
  /\ convs[u] = NoConversation
  /\ IF CodeTaken(users, u, code)
     THEN UNCHANGED <<users, referrals, convs, ret>>
     ELSE LET upserted == [users |-> db_upsert_user_basic(users, u, code),
                           referrals |-> referrals]
              done == process_start_payload(upserted, u, payload)
          IN /\ Len(done.db.referrals) <= MaxReferrals
             /\ users' = done.db.users
             /\ referrals' = done.db.referrals
             /\ ret' = StartRet(u, payload, done.id)
             /\ convs' = [convs EXCEPT ![u] = "ASK_NAME"]
  /\ UNCHANGED <<astro_vars, one_vars, awaits, jobs, outbox>>

\* A text handler of the dialogue that keeps its input in user_data and
\* returns the next state.
AskFor(u, state, next) ==
  /\ convs[u] = state
  /\ convs' = [convs EXCEPT ![u] = next]
  /\ UNCHANGED <<astro_vars, one_vars, users, referrals, awaits, jobs, outbox,
                 ret>>

\* ask_name
AskNameFor(u) == AskFor(u, "ASK_NAME", "ASK_BDATE")

\* ask_bdate on a date it accepts
AskBdateFor(u) == AskFor(u, "ASK_BDATE", "ASK_BPLACE")

\* ask_bplace
AskBplaceFor(u) == AskFor(u, "ASK_BPLACE", "ASK_BTIME")

\* ask_btime on a time it accepts
AskBtimeFor(u) == AskFor(u, "ASK_BTIME", "ASK_SENDTIME")

\* ask_sendtime on the message text
AskSendtimeWithFor(u, text) ==
  /\ convs[u] = "ASK_SENDTIME"
  /\ IF parse_time_str(text) = None
     THEN UNCHANGED <<users, convs>>
     ELSE /\ users' = db_set_user_profile(users, u, text)
          /\ convs' = [convs EXCEPT ![u] = "CONFIRM"]
  /\ UNCHANGED <<astro_vars, one_vars, referrals, awaits, jobs, outbox, ret>>

\* confirm_first with a sheet configured: delivered is FALSE when the charts
\* or send_message raise, which leaves the conversation in CONFIRM
ConfirmFirstFor(u, delivered) ==
  /\ convs[u] = "CONFIRM"
  /\ IF ~users[u].exists
     THEN /\ convs' = [convs EXCEPT ![u] = NoConversation]
          /\ UNCHANGED <<users, jobs, ret>>
     ELSE IF ~delivered
     THEN UNCHANGED <<users, convs, jobs, ret>>
     ELSE LET ensured == ensure_user_code(users, u)
          IN /\ users' = ensured.users
             /\ ret' = CodeRet(u, ensured.code)
             /\ jobs' = schedule_user_job_for(jobs, u,
                          DailyTimeOrDefault(users[u]))
             /\ convs' = [convs EXCEPT ![u] = NoConversation]
  /\ UNCHANGED <<astro_vars, one_vars, referrals, awaits, outbox>>

\* menu_callback, query.data == "edit_time"
MenuEditTimeFor(u) ==
  /\ awaits' = awaits \cup {u}
  /\ UNCHANGED <<astro_vars, one_vars, users, referrals, convs, jobs, outbox,
                 ret>>

\* handle_text on the message text of user u, outside the text states
HandleTextWithFor(u, text) ==
  /\ convs[u] \notin TextStates
  /\ IF u \notin awaits \/ parse_time_str(text) = None
     THEN UNCHANGED <<users, jobs, awaits>>
     ELSE /\ users' = db_set_daily_time(users, u, text)
          /\ jobs' = schedule_user_job_for(jobs, u, text)
          /\ awaits' = awaits \ {u}
  /\ UNCHANGED <<astro_vars, one_vars, referrals, convs, outbox, ret>>

\* menu_callback, query.data == "ref_link"
MenuRefLinkFor(u) ==
  /\ LET ensured == ensure_user_code(users, u)
     IN /\ users' = ensured.users
        /\ ret' = CodeRet(u, ensured.code)
  /\ UNCHANGED <<astro_vars, one_vars, referrals, convs, awaits, jobs, outbox>>

\* successful_payment_callback with a sheet configured: set_subscription and
\* mark_ever_paid write columns this model leaves out
SuccessfulPaymentFor(u) ==
  /\ LET ensured == ensure_user_code(users, u)
     IN /\ users' = ensured.users
        /\ ret' = CodeRet(u, ensured.code)
  /\ UNCHANGED <<astro_vars, one_vars, referrals, convs, awaits, jobs, outbox>>

\* for u in users: if u.daily_time: await schedule_user_job(...)
RECURSIVE ScheduleStored(_, _, _)
ScheduleStored(queue, table, ids) ==
  IF ids = {} THEN queue
  ELSE LET id == CHOOSE i \in ids : \A j \in ids : i <= j
           next == IF table[id].exists /\ table[id].daily_time # None
                   THEN schedule_user_job_for(queue, id, table[id].daily_time)
                   ELSE queue
       IN ScheduleStored(next, table, ids \ {id})

\* post_init after a restart of the process: the conversations, user_data
\* and the job queue are in memory only
PostInitAll ==
  /\ convs' = NoConversations
  /\ awaits' = {}
  /\ jobs' = ScheduleStored(<<>>, users, UserIds)
  /\ UNCHANGED <<astro_vars, one_vars, users, referrals, outbox, ret>>
\* The handlers for any user and any input of the model.
UserStart ==
  \E u \in UserIds, payload \in Payloads, code \in RandomCodes :
    StartWith(u, payload, code)

\* /start without a payload; the random draw is one value for each user
UserStartPlain == \E u \in UserIds : StartWith(u, NoCode, <<"digits", u>>)

UserAskName == \E u \in UserIds : AskNameFor(u)

UserAskBdate == \E u \in UserIds : AskBdateFor(u)

UserAskBplace == \E u \in UserIds : AskBplaceFor(u)

UserAskBtime == \E u \in UserIds : AskBtimeFor(u)

UserAskSendtime ==
  \E u \in UserIds, text \in TimeTexts : AskSendtimeWithFor(u, text)

UserConfirmFirst ==
  \E u \in UserIds, delivered \in BOOLEAN : ConfirmFirstFor(u, delivered)

UserMenuEditTime == \E u \in UserIds : MenuEditTimeFor(u)

UserHandleText ==
  \E u \in UserIds, text \in TimeTexts : HandleTextWithFor(u, text)

UserMenuRefLink == \E u \in UserIds : MenuRefLinkFor(u)

UserSuccessfulPayment == \E u \in UserIds : SuccessfulPaymentFor(u)

(***************************************************************************)
(* The job queue: the registration dialogue, the send-time edit and the    *)
(* restart, for users who start without a payload.                         *)
(***************************************************************************)
NextJobs ==
  \/ UserStartPlain \/ UserAskName \/ UserAskBdate \/ UserAskBplace
  \/ UserAskBtime \/ UserAskSendtime \/ UserConfirmFirst
  \/ UserMenuEditTime \/ UserHandleText \/ PostInitAll

SpecJobs == InitCrowd /\ [][NextJobs]_vars

\* The jobs of the queue named daily_<user_id>, in the order of the queue.
JobsNamed(queue, user_id) ==
  LET Named(j) == j.name = JobName(user_id) IN SelectSeq(queue, Named)

\* The job schedule_user_job(context, user_id, time_str) adds.
DailyJob(user_id, time_str) ==
  [name |-> JobName(user_id),
   time |-> <<time_str[1].val, time_str[2].val>>,
   data |-> user_id]

\* The call schedule_user_job(context, u, time_str) left one job of u, at
\* that time, and every other user's jobs as they were.
Rescheduled(u, time_str) ==
  /\ JobsNamed(jobs', u) = <<DailyJob(u, time_str)>>
  /\ \A v \in UserIds \ {u} : JobsNamed(jobs', v) = JobsNamed(jobs, v)

\* C23: the queue never holds two jobs named daily_<user_id>; each call of
\* schedule_user_job (from confirm_first, from handle_text on a send-time
\* edit, from post_init for every row with a daily_time) leaves exactly one
\* job of that user, at the time of the call, and the jobs of the other
\* users unchanged; and no other step changes the queue, so a user's job has
\* the time of the most recent call for that user.
C23_OneJobPerUser ==
  [][/\ \A u \in UserIds : Len(JobsNamed(jobs', u)) <= 1
     /\ \A u \in UserIds, text \in TimeTexts :
          (HandleTextWithFor(u, text) /\ u \in awaits
             /\ parse_time_str(text) # None) => Rescheduled(u, text)
     /\ \A u \in UserIds :
          (ConfirmFirstFor(u, TRUE) /\ users[u].exists) =>
            Rescheduled(u, DailyTimeOrDefault(users[u]))
     /\ PostInitAll =>
          \A u \in UserIds :
            JobsNamed(jobs', u) =
              IF users[u].exists /\ users[u].daily_time # None
              THEN <<DailyJob(u, users[u].daily_time)>> ELSE <<>>
     /\ jobs' # jobs =>
          \/ \E u \in UserIds, text \in TimeTexts : HandleTextWithFor(u, text)
          \/ \E u \in UserIds : ConfirmFirstFor(u, TRUE)
          \/ PostInitAll]_vars

\* C23's case: both users have a job, the first user's job was scheduled
\* again after the second user's, at another time than the one the dialogue
\* stored for the second user.
C23_Witness ==
  /\ Len(jobs) = 2
  /\ users[1].daily_time # None /\ users[2].daily_time # None
  /\ jobs[1] = DailyJob(2, users[2].daily_time)
  /\ jobs[2] = DailyJob(1, users[1].daily_time)
  /\ users[1].daily_time # users[2].daily_time
  /\ awaits = {}
  /\ convs = NoConversations

(***************************************************************************)
(* Referrals: /start with any payload, the dialogue that closes the        *)
(* conversation again, the referral link, the payment and the restart.     *)
(***************************************************************************)
NextReferral ==
  \/ UserStart \/ UserAskName \/ UserAskBdate \/ UserAskBplace
  \/ UserAskBtime \/ UserAskSendtime \/ UserConfirmFirst
  \/ UserMenuRefLink \/ UserSuccessfulPayment \/ PostInitAll

SpecReferral == InitCrowd /\ [][NextReferral]_vars

\* The rows of the referrals table with the referrer referrer_id.
ReferralRows(rows, referrer_id) ==
  LET By(r) == r[1] = referrer_id IN SelectSeq(rows, By)

\* The points of each user are ten times the number of referral rows with
\* that user as referrer_id, and a user without a row is on no referral row
\* as referrer.
PointsMatch ==
  \A id \in UserIds :
    /\ users[id].points = 10 * Len(ReferralRows(referrals, id))
    /\ ~users[id].exists => ReferralRows(referrals, id) = <<>>

\* A step that changes the points or the referral rows is a /start that
\* appends one row and credits its referrer, and nobody else, with 10 points.
OnlyAddReferral ==
  (referrals' # referrals \/ \E id \in UserIds : users'[id].points # users[id].points)
    => /\ \E u \in UserIds, payload \in Payloads, code \in RandomCodes :
            StartWith(u, payload, code)
       /\ Len(referrals') = Len(referrals) + 1
       /\ SubSeq(referrals', 1, Len(referrals)) = referrals
       /\ LET row == referrals'[Len(referrals')]
          IN \A id \in UserIds :
               users'[id].points =
                 users[id].points + (IF id = row[1] THEN 10 ELSE 0)

\* C25: in every reachable state the points of each user are ten times the
\* number of referral rows with that user as referrer_id; the row and the
\* credit of add_referral come in one step; and no other operation changes
\* the points or the referral rows.
C25_PointsMatchReferrals == []PointsMatch /\ [][OnlyAddReferral]_vars

\* C25's case: both users have referred, one of them twice.
C25_Witness ==
  /\ Len(ReferralRows(referrals, 1)) = 2
  /\ Len(ReferralRows(referrals, 2)) = 1
  /\ users[1].points = 20
  /\ users[2].points = 10

\* No user is their own referrer and no referral row refers a user to
\* themselves.
NoSelfReferral ==
  /\ \A id \in UserIds : users[id].referrer_id # id
  /\ \A i \in 1..Len(referrals) : referrals[i][1] # referrals[i][2]

\* No user other than u has the code payload: the payload is empty, matches
\* no code, or is the code of u.
NoOtherHas(u, payload) ==
  \/ payload = NoCode
  \/ \A v \in UserIds \ {u} :
       ~(users[v].exists /\ users[v].referral_code = payload)

\* The referrer ids and the points of the users table.
ReferralColumns == [id \in UserIds |-> <<users[id].referrer_id, users[id].points>>]

\* C26: a self-referral is never recorded: in every reachable state no user
\* has referrer_id equal to the own id and no referral row has referrer_id
\* equal to referred_user_id; and a /start whose payload is empty, matches no
\* user's code or is the starter's own code changes no referrer_id, no
\* referral row and no points.
C26_NoSelfReferral ==
  /\ []NoSelfReferral
  /\ [][\A u \in UserIds, payload \in Payloads, code \in RandomCodes :
          (StartWith(u, payload, code) /\ NoOtherHas(u, payload)) =>
            /\ referrals' = referrals
            /\ ReferralColumns' = ReferralColumns
            /\ ret'.id = 0]_vars

\* C26's case: a user who was referred before has sent /start with the own
\* code, and nothing was recorded for it.
C26_Witness ==
  /\ ret.call = "process_start_payload"
  /\ ret.user = 2
  /\ users[2].exists
  /\ ret.payload = users[2].referral_code
  /\ ret.id = 0
  /\ users[1].exists
  /\ users[2].referrer_id = 1
  /\ referrals = << <<1, 2>> >>

\* C27: every handled /start of a user u whose payload is the referral code
\* of another user v with a row appends exactly one referral row (v, u),
\* adds exactly 10 points to v and to nobody else, and sets the referrer_id
\* of u to v; also when u was credited to a referrer before.  (The INSERT of
\* a new user's row raises when the drawn code is taken; such a /start ends
\* before the payload is read.)
C27_CreditPerStart ==
  [][\A u \in UserIds, payload \in Payloads, code \in RandomCodes :
       \A v \in UserIds \ {u} :
         (/\ StartWith(u, payload, code)
          /\ ~CodeTaken(users, u, code)
          /\ users[v].exists /\ users[v].referral_code = payload) =>
           /\ referrals' = Append(referrals, <<v, u>>)
           /\ users'[v].points = users[v].points + 10
           /\ users'[u].points = users[u].points
           /\ users'[u].referrer_id = v
           /\ users'[u].exists
           /\ ret'.id = v]_vars

\* C27's case: the second user started twice with the first user's code and
\* the first user was credited both times.
C27_Witness ==
  /\ referrals = << <<1, 2>>, <<1, 2>> >>
  /\ users[1].points = 20
  /\ users[2].referrer_id = 1
  /\ ret.call = "process_start_payload"
  /\ ret.user = 2
  /\ ret.payload = users[1].referral_code
  /\ ret.id = 1

\* ensure_user_code twice in a row on a table.
EnsuredTwice(table, u) == ensure_user_code(ensure_user_code(table, u).users, u)

\* ensure_user_code on table returns the stored code and writes nothing when
\* the user has one, writes at most the code u<user_id> into a row without a
\* code, and a second call returns the same code and writes nothing.
EnsureIdempotent(table, u) ==
  LET once == ensure_user_code(table, u)
  IN /\ (table[u].exists /\ table[u].referral_code # NoCode) =>
          (once.users = table /\ once.code = table[u].referral_code)
     /\ once.users # table =>
          /\ table[u].referral_code = NoCode
          /\ once.users = [table EXCEPT ![u].referral_code = UserCode(u)]
          /\ once.code = UserCode(u)
     /\ EnsuredTwice(table, u).users = once.users
     /\ EnsuredTwice(table, u).code = once.code

\* The users table with the code of u's row set to NULL.
WithoutCode(table, u) == [table EXCEPT ![u].referral_code = NoCode]

\* C29: a stored referral code never changes: no /start, dialogue step,
\* referral link, payment or restart changes a non-empty referral_code; a
\* call of ensure_user_code for a user with a code returns that code and
\* leaves the table as it was; and ensure_user_code is idempotent on the
\* table of every reachable state, and on that table with a code set to
\* NULL, where it writes u<user_id>.
C29_CodeStable ==
  /\ [][/\ \A id \in UserIds :
             users[id].referral_code # NoCode =>
               users'[id].referral_code = users[id].referral_code
        /\ \A u \in UserIds :
             ((MenuRefLinkFor(u) \/ SuccessfulPaymentFor(u))
                /\ users[u].referral_code # NoCode) =>
               (users' = users /\ ret'.code = users[u].referral_code)]_vars
  /\ [](\A u \in UserIds :
          /\ EnsureIdempotent(users, u)
          /\ EnsureIdempotent(WithoutCode(users, u), u)
          /\ users[u].exists =>
               ensure_user_code(WithoutCode(users, u), u).users[u].referral_code
                 = UserCode(u))

\* C29's case: the first user started twice with the second user's code, and
\* the referral link still carries the code the first /start stored.
C29_Witness ==
  /\ referrals = << <<2, 1>>, <<2, 1>> >>
  /\ ret.call = "ensure_user_code"
  /\ ret.user = 1
  /\ ret.code = users[1].referral_code
  /\ ret.code \in RandomCodes
  /\ convs[1] # NoConversation

(***************************************************************************)
(* broadcast (bot.py): the /broadcast command over the stored users.       *)
(***************************************************************************)
\* The cap on the delivery attempts the model records.
MaxOutbox == 4

\* ADMIN_USER_ID: unset (0), a user who may have a row, a user without one
AdminIds == {0, 1, 3}

Senders == UserIds \cup {3}

\* " ".join(context.args) if context.args else ""
BroadcastTexts == {"", "news"}

NoReply == [kind |-> "", count |-> 0]

\* A loop that would end at the first delivery that raises.
RECURSIVE broadcast_loop_until_failure(_, _, _, _)
broadcast_loop_until_failure(table, ids, text, failed) ==
  IF ids = {} THEN <<>>
  ELSE LET id == CHOOSE i \in ids : \A j \in ids : i <= j
       IN IF ~table[id].exists
          THEN broadcast_loop_until_failure(table, ids \ {id}, text, failed)
          ELSE IF id \in failed
          THEN <<[chat_id |-> id, text |-> text, ok |-> FALSE]>>
          ELSE <<[chat_id |-> id, text |-> text, ok |-> TRUE]>>
               \o broadcast_loop_until_failure(table, ids \ {id}, text, failed)

\* for u in users: try send_message(chat_id=u.user_id, text=text) except
\* Exception: the attempts in the order of list_users; failed holds the
\* users whose delivery raises
RECURSIVE broadcast_loop(_, _, _, _)
broadcast_loop(table, ids, text, failed) ==
  IF ids = {} THEN <<>>
  ELSE LET id == CHOOSE i \in ids : \A j \in ids : i <= j
       IN (IF table[id].exists
           THEN <<[chat_id |-> id, text |-> text, ok |-> id \notin failed]>>
           ELSE <<>>)
          \o broadcast_loop(table, ids \ {id}, text, failed)

\* sent += 1 after each delivery that returned
SentCount(attempts) ==
  LET Ok(a) == a.ok IN Len(SelectSeq(attempts, Ok))

InitBroadcast ==
  /\ config \in {[admin_user_id |-> a] : a \in AdminIds}
  /\ reply = NoReply
  /\ users = NoUsers
  /\ referrals = <<>>
  /\ convs = NoConversations
  /\ awaits = {}
  /\ jobs = <<>>
  /\ outbox = <<>>
  /\ ret = NoRet
  /\ raw = <<>> /\ calls = <<>>
  /\ pc = "crowd"
  /\ user = <<>> /\ user_data = <<>> /\ conv = ""
  /\ job = <<>> /\ digest = <<>> /\ clock = 0 /\ sent = <<>>
  /\ AstroIdle
  /\ RenderIdle
  /\ QuotesIdle
  /\ DeltaIdle

\* broadcast: /broadcast <text> from sender
BroadcastWith(sender, text, failed) ==
  /\ IF sender # config.admin_user_id
     THEN /\ reply' = [kind |-> "admin_only", count |-> 0]
          /\ UNCHANGED outbox
     ELSE IF text = ""
     THEN /\ reply' = [kind |-> "usage", count |-> 0]
          /\ UNCHANGED outbox
     ELSE LET attempts == broadcast_loop(users, UserIds, text, failed)
          IN /\ Len(outbox) + Len(attempts) <= MaxOutbox
             /\ outbox' = outbox \o attempts
             /\ reply' = [kind |-> "sent", count |-> SentCount(attempts)]
  /\ UNCHANGED <<astro_vars, config, user, user_data, conv, job, digest, clock,
                 sent, users, referrals, convs, awaits, jobs, ret>>

Broadcast ==
  \E sender \in Senders, text \in BroadcastTexts, failed \in SUBSET UserIds :
    BroadcastWith(sender, text, failed)

NextBroadcast == UserStartPlain \/ Broadcast

SpecBroadcast == InitBroadcast /\ [][NextBroadcast]_vars

\* The attempts a step added to the outbox.
NewAttempts == SubSeq(outbox', Len(outbox) + 1, Len(outbox'))

\* C30: a /broadcast from a sender who is not the administrator, or without
\* text, sends no message to any stored user; a /broadcast of the
\* administrator with a text attempts the delivery of that text exactly once
\* to every stored user and to nobody else, a delivery that fails does not
\* keep the later ones from being attempted, and the count reported is the
\* number of deliveries that succeeded.
C30_BroadcastAdminOnly ==
  [][\A sender \in Senders, text \in BroadcastTexts, failed \in SUBSET UserIds :
       BroadcastWith(sender, text, failed) =>
         IF sender # config.admin_user_id \/ text = ""
         THEN outbox' = outbox /\ reply'.kind # "sent"
         ELSE /\ SubSeq(outbox', 1, Len(outbox)) = outbox
              /\ \A id \in UserIds :
                   Cardinality({i \in 1..Len(NewAttempts) :
                                  NewAttempts[i].chat_id = id})
                     = IF users[id].exists THEN 1 ELSE 0
              /\ \A i \in 1..Len(NewAttempts) :
                   /\ NewAttempts[i].text = text
                   /\ NewAttempts[i].ok = (NewAttempts[i].chat_id \notin failed)
              /\ reply'.kind = "sent"
              /\ reply'.count =
                   Cardinality({id \in UserIds : users[id].exists /\ id \notin failed})]_vars

\* C30's case: the delivery to the first stored user failed, the second was
\* still attempted and succeeded, and one delivery was reported.
C30_Witness ==
  /\ Len(outbox) = 2
  /\ outbox[1].chat_id = 1 /\ ~outbox[1].ok
  /\ outbox[2].chat_id = 2 /\ outbox[2].ok
  /\ reply = [kind |-> "sent", count |-> 1]

====
